---- MODULE Spec2Model ----
(***************************************************************************)
(* otlpxy: an asynchronous OTLP proxy.  The model covers the ingress       *)
(* adapter (ProxyHandler.handleAsync), the three forwarder variants        *)
(* (worker.Pool behind PoolForwarder, SemaphoreForwarder, HybridForwarder) *)
(* and the upstream sender each of them runs.                              *)
(*                                                                         *)
(* Header names are sequences of one-character strings, so that            *)
(* strings.ToLower, strings.EqualFold and the canonical form net/http      *)
(* gives to header keys are computed character by character.               *)
(***************************************************************************)
EXTENDS Integers, Sequences, FiniteSets, TLC

(***************************************************************************)
(* Bounds of the model.                                                    *)
(***************************************************************************)
WorkerCount == 1
QueueCap == 1
MaxConcurrent == 1
MaxTasks == 4
MaxBurst == 3
MaxCalls == 2
MaxLines == 2
MaxRequests == 1
MaxProxied == 1
MaxCPU == 2
MaxSignals == 2

(***************************************************************************)
(* Characters and header names.                                            *)
(***************************************************************************)
UpperAlpha == <<"A","B","C","D","E","F","G","H","I","J","K","L","M",
                "N","O","P","Q","R","S","T","U","V","W","X","Y","Z">>
LowerAlpha == <<"a","b","c","d","e","f","g","h","i","j","k","l","m",
                "n","o","p","q","r","s","t","u","v","w","x","y","z">>

Chars == { UpperAlpha[i] : i \in 1..26 } \cup { LowerAlpha[i] : i \in 1..26 } \cup { "-" }

LowerOf ==
    [c \in Chars |->
        IF \E i \in 1..26 : UpperAlpha[i] = c
        THEN LowerAlpha[CHOOSE i \in 1..26 : UpperAlpha[i] = c]
        ELSE c]

UpperOf ==
    [c \in Chars |->
        IF \E i \in 1..26 : LowerAlpha[i] = c
        THEN UpperAlpha[CHOOSE i \in 1..26 : LowerAlpha[i] = c]
        ELSE c]

ToLowerCh(c) == LowerOf[c]

ToUpperCh(c) == UpperOf[c]

ToLower(s) == [i \in 1..Len(s) |-> ToLowerCh(s[i])]

ToUpper(s) == [i \in 1..Len(s) |-> ToUpperCh(s[i])]

EqualFold(a, b) == ToLower(a) = ToLower(b)

\* textproto.CanonicalMIMEHeaderKey, as http.Header.Add/Set/Get apply it:
\* the first letter and every letter after a hyphen in upper case, the rest
\* in lower case.
CanonicalMIMEHeaderKey(s) ==
    [i \in 1..Len(s) |->
        IF i = 1 \/ s[i-1] = "-" THEN ToUpperCh(s[i]) ELSE ToLowerCh(s[i])]

nHost == <<"H","o","s","t">>
nConnection == <<"C","o","n","n","e","c","t","i","o","n">>
nKeepAlive == <<"K","e","e","p","-","A","l","i","v","e">>
nProxyAuthenticate ==
    <<"P","r","o","x","y","-","A","u","t","h","e","n","t","i","c","a","t","e">>
nProxyAuthorization ==
    <<"P","r","o","x","y","-","A","u","t","h","o","r","i","z","a","t","i","o","n">>
nTE == <<"T","E">>
nTrailer == <<"T","r","a","i","l","e","r">>
nTransferEncoding ==
    <<"T","r","a","n","s","f","e","r","-","E","n","c","o","d","i","n","g">>
nUpgrade == <<"U","p","g","r","a","d","e">>
nProxyConnection ==
    <<"P","r","o","x","y","-","C","o","n","n","e","c","t","i","o","n">>
nAuthorization == <<"A","u","t","h","o","r","i","z","a","t","i","o","n">>
nContentType == <<"C","o","n","t","e","n","t","-","T","y","p","e">>
nXClientId == <<"X","-","C","l","i","e","n","t","-","I","d">>

\* The names isHopByHop matches, in the lower case the switch spells them.
HopByHopLower ==
    { ToLower(n) : n \in { nConnection, nKeepAlive, nProxyAuthenticate,
                           nProxyAuthorization, nTE, nTrailer,
                           nTransferEncoding, nUpgrade, nProxyConnection } }

isHopByHop(name) == ToLower(name) \in HopByHopLower

DefaultContentType == "application/x-protobuf"

(***************************************************************************)
(* http.Header: a function from canonical names to sequences of values.    *)
(***************************************************************************)
EmptyHeader == << >>

HeaderAdd(h, k, v) ==
    LET ck == CanonicalMIMEHeaderKey(k) IN
    IF ck \in DOMAIN h THEN [h EXCEPT ![ck] = Append(@, v)]
    ELSE [x \in DOMAIN h \cup {ck} |-> IF x = ck THEN <<v>> ELSE h[x]]

HeaderSet(h, k, v) ==
    LET ck == CanonicalMIMEHeaderKey(k) IN
    [x \in DOMAIN h \cup {ck} |-> IF x = ck THEN <<v>> ELSE h[x]]

HeaderGet(h, k) ==
    LET ck == CanonicalMIMEHeaderKey(k) IN
    IF ck \in DOMAIN h /\ Len(h[ck]) > 0 THEN h[ck][1] ELSE ""

\* The header map the server hands to the handler: the client's field lines,
\* in the order sent, each added under its canonical key.
RECURSIVE ParseHeader(_)
ParseHeader(lines) ==
    IF Len(lines) = 0 THEN EmptyHeader
    ELSE LET n == Len(lines) IN
         HeaderAdd(ParseHeader(SubSeq(lines, 1, n - 1)), lines[n][1], lines[n][2])

(***************************************************************************)
(* The task the ingress adapter builds (proxy_handler.go, handleAsync).    *)
(***************************************************************************)
RECURSIVE AddValues(_, _, _)
AddValues(h, k, vals) ==
    IF Len(vals) = 0 THEN h
    ELSE HeaderAdd(AddValues(h, k, SubSeq(vals, 1, Len(vals) - 1)), k, vals[Len(vals)])

\* for k, vals := range c.Request().Header { ... headers.Add(k, v) }
RECURSIVE CopyRequestHeaders(_, _)
CopyRequestHeaders(in, keys) ==
    IF keys = {} THEN EmptyHeader
    ELSE LET k == CHOOSE x \in keys : TRUE
             rest == CopyRequestHeaders(in, keys \ {k})
         IN  IF Len(in[k]) = 0 THEN rest
             ELSE IF EqualFold(k, nHost) \/ isHopByHop(k) THEN rest
             ELSE AddValues(rest, k, in[k])

EnsureContentType(in, headers) ==
    LET contentType == IF HeaderGet(in, nContentType) = "" THEN DefaultContentType
                       ELSE HeaderGet(in, nContentType)
    IN  IF HeaderGet(headers, nContentType) = ""
        THEN HeaderSet(headers, nContentType, contentType)
        ELSE headers

\* An injection that adds the credential to what the client sent.
InjectAuthorizationAdd(headers, key) ==
    IF key # "" THEN HeaderAdd(headers, nAuthorization, key) ELSE headers

\* An injection that does not look whether a credential is configured.
InjectAuthorizationAlways(headers, key) ==
    HeaderSet(headers, nAuthorization, key)

\* if h.apiKey != "" { headers.Set("Authorization", h.apiKey) }
InjectAuthorization(headers, key) ==
    IF key # "" THEN HeaderSet(headers, nAuthorization, key) ELSE headers

BuildHeaders(in, key) ==
    InjectAuthorization(
        EnsureContentType(in, CopyRequestHeaders(in, DOMAIN in)), key)

\* The arguments of forwarder.Submit: body, targetURL + path, headers.
BuildJob(r, base, key) ==
    [body |-> r.body, targetURL |-> <<base, r.path>>,
     headers |-> BuildHeaders(ParseHeader(r.lines), key)]

\* The request a sender builds from a job: http.NewRequest with the job's body,
\* then req.Header.Add(k, v) for every value of every header of the job.
RECURSIVE CopyJobHeaders(_, _)
CopyJobHeaders(hs, keys) ==
    IF keys = {} THEN EmptyHeader
    ELSE LET k == CHOOSE x \in keys : TRUE
         IN  AddValues(CopyJobHeaders(hs, keys \ {k}), k, hs[k])

NewRequest(j) ==
    [body |-> j.body, url |-> j.targetURL,
     header |-> CopyJobHeaders(j.headers, DOMAIN j.headers)]

StatusAccepted == 202
StatusServiceUnavailable == 503
StatusBadRequest == 400
StatusBadGateway == 502

\* A reply that does not look at what Submit returned.
SubmitReplyAlwaysAccepted(res) == StatusAccepted

\* The reply handleAsync gives for the outcome of Submit.
SubmitReply(res) ==
    IF res = "err" THEN StatusServiceUnavailable ELSE StatusAccepted

(***************************************************************************)
(* Client requests.                                                        *)
(***************************************************************************)
BaseNames ==
    { nHost, nConnection, nKeepAlive, nProxyAuthenticate, nProxyAuthorization,
      nTE, nTrailer, nTransferEncoding, nUpgrade, nProxyConnection,
      nAuthorization, nContentType, nXClientId }

\* Every name in the letter cases a client may send it in.
WireNames ==
    UNION { { CanonicalMIMEHeaderKey(n), ToLower(n), ToUpper(n) } : n \in BaseNames }

WireValues == { "", "v" }

FieldLines == WireNames \X WireValues

\* Lines that go with every first line: one of each kind of header.
MixLines ==
    { <<nXClientId, "v">>, <<ToLower(nConnection), "v">>,
      <<nAuthorization, "w">>, <<nContentType, "w">> }

\* The lines that may follow a first line: the same name in any letter case
\* with any value, or one of MixLines.
RelatedLines(a) == { l \in FieldLines : EqualFold(l[1], a[1]) } \cup MixLines

\* No line, or a first line followed by at most MaxLines - 1 related lines.
LineSeqs ==
    { <<>> } \cup
    UNION { { <<a>> \o rest :
                rest \in UNION { [1..n -> RelatedLines(a)] : n \in 0..(MaxLines - 1) } } :
            a \in FieldLines }

Paths == { "/v1/logs", "/v1/traces" }

\* The requests of the header claims: the field lines of LineSeqs, a readable
\* body.
WideRequests ==
    { [lines |-> l, body |-> "hello", bodyOK |-> TRUE, path |-> "/v1/logs"] :
        l \in LineSeqs }

\* The requests of the forwarding claims: one readable, one whose body read
\* fails; the path does not matter to the forwarder.
PlainRequests ==
    { [lines |-> <<>>, body |-> "hello", bodyOK |-> ok, path |-> p] :
        ok \in BOOLEAN, p \in {"/v1/traces"} }

(***************************************************************************)
(* State.                                                                  *)
(***************************************************************************)
Modes == { "pool", "semaphore", "hybrid" }

TaskIds == 1..MaxTasks

NoJob == [body |-> "", targetURL |-> <<>>, headers |-> EmptyHeader]

NoRequest == [body |-> "", url |-> <<>>, header |-> EmptyHeader]

VARIABLES
    cfg,                   \* the configuration file's values, as viper reads them
    numCPU,                \* runtime.NumCPU()
    mode,                  \* the forwarder injectDependency built
    syncLogs,              \* ProxyHandler.syncLogs
    apiKey,                \* ProxyHandler.apiKey
    urlOK,                 \* whether ProxyHandler.targetURL + path parses as a URL
    workerCount,           \* Pool.workerCount / HybridForwarder.workerCount
    jobQueueSize,          \* cap(jobQueue), as the constructor made it
    startOnce,             \* startOnce has run its function
    stopPc,                \* Stop: "idle", "closing", "waiting", "returned"
    stopHow,               \* which case of Stop's select was taken
    waitPc,                \* the goroutine Stop spawns to wait on the wait-groups
    stopped,               \* SemaphoreForwarder.stopped / HybridForwarder.stopped
    closed,                \* jobQueue has been closed
    jobQueue,              \* the buffered channel, as the sequence of task ids in it
    permits,               \* Pool.permits: number of tokens in the channel
    tokens,                \* tokens of the semaphore and hybrid forwarders
    worker,                \* pool workers / hybrid dispatchers: [pc, job]
    wg,                    \* wg: workers (pool), units (semaphore), dispatchers (hybrid)
    sendWG,                \* HybridForwarder.sendWG
    waiters,               \* SemaphoreForwarder.waiters
    hpc,                   \* handleAsync of each request: its position
    submitRes,             \* what Submit returned to it
    reply,                 \* the status it replied with (0: none yet)
    replyBody,             \* the body it replied with
    answer,                \* what the upstream answered to the handler's own POST
    request,               \* the client request
    job,                   \* the job it built
    submitAt,              \* whether Stop had been called when Submit was called,
                           \* and when it returned: "none", "before", "after"
    spc,                   \* the sender of each task: its position
    posts,                 \* upstream POSTs started for the task
    upstream,              \* the request the sender built for the task
    outcome,               \* how the send ended
    ActiveWorkersGauge,
    JobsProcessedCounter,
    JobsFailedCounter,
    nextId,                \* requests received so far, plus one
    startCalls,            \* calls of Start so far
    stopCalls,             \* calls of Stop so far
    spawns,                \* times Start's function ran (the worker set was spawned)
    closes,                \* times close(jobQueue) ran
    waitRuns,              \* times Stop's wait-with-timeout was begun
    readiness,             \* App.readiness
    runPc,                 \* App.Run, the calling goroutine: its position
    srvPc,                 \* the goroutine Run starts for the server: its position
    gate,                  \* the requests the server accepted: path, what the
                           \* request's last load of readiness returned,
                           \* position, status, task
    nextReq,               \* requests the server accepted so far, plus one
    events,                \* the steps of Run's shutdown sequence, in order
    quit,                  \* signals buffered in Run's quit channel (capacity 1)
    signals                \* signals delivered to the process since signal.Notify

config == <<cfg, numCPU, mode, syncLogs, apiKey, urlOK, workerCount, jobQueueSize>>
lifecycle == <<startOnce, stopPc, stopHow, waitPc, stopped, closed,
               startCalls, stopCalls, spawns, closes, waitRuns>>
channels == <<jobQueue, permits, tokens>>
groups == <<wg, sendWG, waiters>>
handlers == <<hpc, submitRes, reply, replyBody, answer, request, job, submitAt,
              nextId>>
senders == <<spc, posts, upstream, outcome>>
metrics == <<ActiveWorkersGauge, JobsProcessedCounter, JobsFailedCounter>>

app == <<readiness, runPc, srvPc, gate, nextReq, events, quit, signals>>

vars == <<config, lifecycle, channels, groups, handlers, senders, metrics, worker,
          app>>

\* The workers of the pool, the dispatchers of the hybrid forwarder.
Workers == 1..workerCount

DefaultJobQueueSize == 10000

DefaultWorkersPerCPU == 50

HybridDefaultWorkerCount == 1

\* config.Load: the forwarding mode is normalised, "" and every unknown value
\* to "pool".
Load(c) ==
    [c EXCEPT !.ForwardingMode =
        IF @ \in {"pool", "semaphore", "hybrid"} THEN @ ELSE "pool"]

\* A switch that lacks the "hybrid" case.
ForwarderKindNoHybrid(m) ==
    CASE m = "semaphore" -> "semaphore"
      [] OTHER -> "pool"

\* App.injectDependency: the switch on config.ForwardingMode.
ForwarderKind(m) ==
    CASE m = "semaphore" -> "semaphore"
      [] m = "hybrid" -> "hybrid"
      [] OTHER -> "pool"

\* The worker count the constructor keeps: NewPool replaces a count <= 0 by
\* 50 * runtime.NumCPU(), NewHybridForwarder by 1; NewSemaphoreForwarder takes
\* no worker count and has no workers.
NewWorkerCount(kind, count, cpus) ==
    IF count > 0 THEN count
    ELSE CASE kind = "pool" -> DefaultWorkersPerCPU * cpus
           [] kind = "hybrid" -> HybridDefaultWorkerCount
           [] kind = "semaphore" -> 0

\* No answer of the upstream.
NoAnswer == [how |-> "none", status |-> 0, body |-> ""]

\* NewPool and NewHybridForwarder: if jobQueueSize <= 0 { jobQueueSize = 10000 }.
NewJobQueueSize(size) == IF size <= 0 THEN DefaultJobQueueSize ELSE size

\* The requests of the application claims: ids and the record of one not yet
\* accepted.
ReqIds == 1..MaxRequests

NoGate == [path |-> "", seen |-> FALSE, pc |-> "none", status |-> 0, task |-> 0]

\* NewApp, NewPool, NewSemaphoreForwarder, NewHybridForwarder, NewProxyHandler:
\* the state after construction with a positive worker count and a queue size,
\* for the given keys and URL validities.
InitFrom(keys, urls, modes, workers, sizes, cpus, syncs) ==
    /\ cfg \in [ForwardingMode : modes, WorkerPoolSize : workers,
                 JobQueueSize : sizes, SyncLogsDebug : syncs]
    /\ numCPU \in cpus
    /\ mode = ForwarderKind(Load(cfg).ForwardingMode)
    /\ syncLogs = cfg.SyncLogsDebug
    /\ apiKey \in keys
    /\ urlOK \in urls
    /\ workerCount = NewWorkerCount(mode, cfg.WorkerPoolSize, numCPU)
    /\ jobQueueSize = NewJobQueueSize(cfg.JobQueueSize)
    /\ startOnce = FALSE
    /\ stopPc = "idle"
    /\ stopHow = "none"
    /\ waitPc = "none"
    /\ stopped = FALSE
    /\ closed = FALSE
    /\ jobQueue = <<>>
    /\ permits = 0
    /\ tokens = 0
    /\ worker = [w \in Workers |-> [pc |-> "none", job |-> 0]]
    /\ wg = 0
    /\ sendWG = 0
    /\ waiters = 0
    /\ hpc = [i \in TaskIds |-> "new"]
    /\ submitRes = [i \in TaskIds |-> "none"]
    /\ reply = [i \in TaskIds |-> 0]
    /\ replyBody = [i \in TaskIds |-> ""]
    /\ answer = [i \in TaskIds |-> NoAnswer]
    /\ request = [i \in TaskIds |-> <<>>]
    /\ job = [i \in TaskIds |-> NoJob]
    /\ submitAt = [i \in TaskIds |-> [call |-> "none", ret |-> "none"]]
    /\ spc = [i \in TaskIds |-> "none"]
    /\ posts = [i \in TaskIds |-> 0]
    /\ upstream = [i \in TaskIds |-> NoRequest]
    /\ outcome = [i \in TaskIds |-> "none"]
    /\ ActiveWorkersGauge = 0
    /\ JobsProcessedCounter = 0
    /\ JobsFailedCounter = 0
    /\ nextId = 1
    /\ startCalls = 0
    /\ stopCalls = 0
    /\ spawns = 0
    /\ closes = 0
    /\ waitRuns = 0
    /\ readiness = FALSE
    /\ runPc = "created"
    /\ srvPc = "none"
    /\ gate = [q \in ReqIds |-> NoGate]
    /\ nextReq = 1
    /\ events = <<>>
    /\ quit = 0
    /\ signals = 0

\* The state after construction in each of the three modes, with the given
\* worker count and queue size, one CPU and sync_logs_debug false.
InitSized(keys, urls, workers, size) ==
    InitFrom(keys, urls, Modes, {workers}, {size}, {1}, {FALSE})

InitWith(keys, urls) == InitSized(keys, urls, WorkerCount, QueueCap)

Init == InitWith({"k"}, BOOLEAN)

\* A permits channel sized as if the queue were twice as long.
PermitCapDoubleQueue == workerCount + 2 * jobQueueSize

\* A permits channel with one slot too many.
PermitCapTooLarge == workerCount + jobQueueSize + 1

\* Capacity of Pool.permits: workerCount + jobQueueSize.
PermitCap == workerCount + jobQueueSize

\* GetQueueDepth of the forwarder in use.
GetQueueDepth ==
    IF mode = "semaphore" THEN (IF waiters < 0 THEN 0 ELSE waiters)
    ELSE Len(jobQueue)

(***************************************************************************)
(* Start.                                                                  *)
(***************************************************************************)
\* Pool.Start / SemaphoreForwarder.Start / HybridForwarder.Start: startOnce.Do
\* spawns workerCount workers (pool, hybrid), each registered in wg.
StartCall(cap) ==
    /\ startCalls < cap
    /\ startCalls' = startCalls + 1
    /\ IF ~startOnce
       THEN /\ startOnce' = TRUE
            /\ spawns' = spawns + 1
            /\ IF mode = "semaphore"
               THEN UNCHANGED <<worker, wg>>
               ELSE /\ worker' = [w \in Workers |-> [pc |-> "recv", job |-> 0]]
                    /\ wg' = wg + workerCount
       ELSE UNCHANGED <<startOnce, spawns, worker, wg>>
    /\ UNCHANGED <<config, stopPc, stopHow, waitPc, stopped, closed, stopCalls,
                   closes, waitRuns, channels, sendWG, waiters, handlers,
                   senders, metrics>>

(***************************************************************************)
(* The ingress adapter and Submit.                                         *)
(***************************************************************************)
\* The permit select with its bound off by one.
PermitAvailableOffByOne == permits <= PermitCap

\* The select of Pool.SubmitJob: case p.permits <- struct{}{} can be taken.
PermitAvailable == permits < PermitCap

\* Whether Stop has been called: the phase a call or a return of Submit falls
\* in.
StopPhase == IF stopPc = "idle" THEN "before" ELSE "after"

\* The first step of Submit for a request whose body was read: the permit
\* select of Pool.SubmitJob, or the stopped.Load of the two other forwarders.
\* A first step that does not test stopped.
SubmitFirstPcNoStopCheck ==
    CASE mode = "pool" -> IF PermitAvailable THEN "handoff" ELSE "replied"
      [] mode = "semaphore" -> "checked"
      [] mode = "hybrid" -> "checked"

SubmitFirstPc ==
    CASE mode = "pool" -> IF PermitAvailable THEN "handoff" ELSE "replied"
      [] mode = "semaphore" -> IF stopped THEN "replied" ELSE "checked"
      [] mode = "hybrid" -> IF stopped THEN "replied" ELSE "checked"

SubmitFirstRes ==
    CASE mode = "pool" -> IF PermitAvailable THEN "none" ELSE "err"
      [] mode = "semaphore" -> IF stopped THEN "ok" ELSE "none"
      [] mode = "hybrid" -> IF stopped THEN "err" ELSE "none"

\* handleAsync up to and including the first step of Submit: read the body
\* (400 when that fails), build the headers, call Submit; when Submit returns
\* in that step, the reply.
HandleAsync(r) ==
    /\ nextId' = nextId + 1
    /\ request' = [request EXCEPT ![nextId] = r]
    /\ IF ~r.bodyOK
       THEN /\ reply' = [reply EXCEPT ![nextId] = StatusBadRequest]
            /\ hpc' = [hpc EXCEPT ![nextId] = "replied"]
            /\ submitRes' = [submitRes EXCEPT ![nextId] = "notcalled"]
            /\ UNCHANGED <<job, permits, submitAt>>
       ELSE /\ job' = [job EXCEPT ![nextId] = BuildJob(r, "base", apiKey)]
            /\ submitAt' = [submitAt EXCEPT ![nextId] =
                               [call |-> StopPhase,
                                ret |-> IF SubmitFirstRes = "none" THEN "none"
                                        ELSE StopPhase]]
            /\ hpc' = [hpc EXCEPT ![nextId] = SubmitFirstPc]
            /\ submitRes' = [submitRes EXCEPT ![nextId] = SubmitFirstRes]
            /\ permits' = IF mode = "pool" /\ PermitAvailable
                          THEN permits + 1 ELSE permits
            /\ reply' = IF SubmitFirstRes = "none" THEN reply
                        ELSE [reply EXCEPT ![nextId] = SubmitReply(SubmitFirstRes)]
    /\ UNCHANGED <<config, lifecycle, jobQueue, tokens, groups, senders,
                   metrics, worker, replyBody, answer>>

\* What the upstream can answer to the handler's own POST: a transport error,
\* or a response with a status and a body.
Answers ==
    { [how |-> "transport", status |-> 0, body |-> ""] } \cup
    { [how |-> "response", status |-> st, body |-> b] :
        st \in { 200, 500 }, b \in { "", "partial" } }

\* The requests to /v1/logs: one readable, one whose body read fails.
LogsRequests ==
    { [lines |-> <<>>, body |-> "hello", bodyOK |-> ok, path |-> "/v1/logs"] :
        ok \in BOOLEAN }

\* HandleLogs with syncLogs true: the body is read (400 when that fails), the
\* upstream request is built (400 when that fails) and sent by the handler's
\* own client (502 on a transport error); the upstream's status and body are
\* copied to the reply.  The forwarder is not used.
HandleLogsSync(r, a) ==
    /\ nextId' = nextId + 1
    /\ request' = [request EXCEPT ![nextId] = r]
    /\ hpc' = [hpc EXCEPT ![nextId] = "replied"]
    /\ submitRes' = [submitRes EXCEPT ![nextId] = "notcalled"]
    /\ IF ~r.bodyOK \/ ~urlOK
       THEN /\ reply' = [reply EXCEPT ![nextId] = StatusBadRequest]
            /\ UNCHANGED <<replyBody, answer, posts>>
       ELSE /\ answer' = [answer EXCEPT ![nextId] = a]
            /\ posts' = [posts EXCEPT ![nextId] = @ + 1]
            /\ IF a.how = "transport"
               THEN /\ reply' = [reply EXCEPT ![nextId] = StatusBadGateway]
                    /\ UNCHANGED replyBody
               ELSE /\ reply' = [reply EXCEPT ![nextId] = a.status]
                    /\ replyBody' = [replyBody EXCEPT ![nextId] = a.body]
    /\ UNCHANGED <<config, lifecycle, channels, groups, job, submitAt, spc,
                   upstream, outcome, metrics, worker>>

HandleLogsAlwaysAsync(r, a) == HandleAsync(r)

\* ProxyHandler.HandleLogs: handleAsync unless syncLogs is set.
HandleLogs(r, a) ==
    IF syncLogs THEN HandleLogsSync(r, a) ELSE HandleAsync(r)

\* Pool.SubmitJob, second step: p.jobQueue <- job.  A send on a closed channel
\* panics; a send on a full one blocks.  After the send SubmitJob returns nil
\* and handleAsync replies.
PoolHandoff(id) ==
    /\ mode = "pool"
    /\ hpc[id] = "handoff"
    /\ IF closed
       THEN /\ hpc' = [hpc EXCEPT ![id] = "panicked"]
            /\ submitRes' = [submitRes EXCEPT ![id] = "panic"]
            /\ UNCHANGED <<jobQueue, reply, submitAt>>
       ELSE /\ Len(jobQueue) < jobQueueSize
            /\ jobQueue' = Append(jobQueue, id)
            /\ hpc' = [hpc EXCEPT ![id] = "replied"]
            /\ submitRes' = [submitRes EXCEPT ![id] = "ok"]
            /\ reply' = [reply EXCEPT ![id] = SubmitReply("ok")]
            /\ submitAt' = [submitAt EXCEPT ![id].ret = StopPhase]
    /\ UNCHANGED <<config, lifecycle, permits, tokens, groups, request, replyBody, answer,
                   job, nextId, senders, metrics, worker>>
    /\ UNCHANGED app

\* SemaphoreForwarder.Submit, second step: wg.Add(1) and the go statement;
\* Submit returns nil and handleAsync replies.
SemaphoreSpawn(id) ==
    /\ mode = "semaphore"
    /\ hpc[id] = "checked"
    /\ wg' = wg + 1
    /\ spc' = [spc EXCEPT ![id] = "spawned"]
    /\ hpc' = [hpc EXCEPT ![id] = "replied"]
    /\ submitRes' = [submitRes EXCEPT ![id] = "ok"]
    /\ reply' = [reply EXCEPT ![id] = SubmitReply("ok")]
    /\ submitAt' = [submitAt EXCEPT ![id].ret = StopPhase]
    /\ UNCHANGED <<config, lifecycle, channels, sendWG, waiters, request, replyBody, answer,
                   job, nextId, posts, upstream, outcome, metrics, worker>>
    /\ UNCHANGED app

\* A Submit whose select has no default case: it waits for room in the queue.
HybridEnqueueNoDefault(id) ==
    /\ mode = "hybrid"
    /\ hpc[id] = "checked"
    /\ IF closed
       THEN /\ hpc' = [hpc EXCEPT ![id] = "panicked"]
            /\ submitRes' = [submitRes EXCEPT ![id] = "panic"]
            /\ UNCHANGED <<jobQueue, reply, submitAt>>
       ELSE /\ Len(jobQueue) < jobQueueSize
            /\ jobQueue' = Append(jobQueue, id)
            /\ hpc' = [hpc EXCEPT ![id] = "replied"]
            /\ submitRes' = [submitRes EXCEPT ![id] = "ok"]
            /\ reply' = [reply EXCEPT ![id] = SubmitReply("ok")]
            /\ submitAt' = [submitAt EXCEPT ![id].ret = StopPhase]
    /\ UNCHANGED <<config, lifecycle, permits, tokens, groups, request, replyBody, answer,
                   job, nextId, senders, metrics, worker>>
    /\ UNCHANGED app

\* HybridForwarder.Submit, second step: the select that sends to jobQueue or
\* takes the default case; Submit returns and handleAsync replies.
HybridEnqueue(id) ==
    /\ mode = "hybrid"
    /\ hpc[id] = "checked"
    /\ IF closed
       THEN /\ hpc' = [hpc EXCEPT ![id] = "panicked"]
            /\ submitRes' = [submitRes EXCEPT ![id] = "panic"]
            /\ UNCHANGED <<jobQueue, reply, submitAt>>
       ELSE IF Len(jobQueue) < jobQueueSize
       THEN /\ jobQueue' = Append(jobQueue, id)
            /\ hpc' = [hpc EXCEPT ![id] = "replied"]
            /\ submitRes' = [submitRes EXCEPT ![id] = "ok"]
            /\ reply' = [reply EXCEPT ![id] = SubmitReply("ok")]
            /\ submitAt' = [submitAt EXCEPT ![id].ret = StopPhase]
       ELSE /\ hpc' = [hpc EXCEPT ![id] = "replied"]
            /\ submitRes' = [submitRes EXCEPT ![id] = "err"]
            /\ reply' = [reply EXCEPT ![id] = SubmitReply("err")]
            /\ submitAt' = [submitAt EXCEPT ![id].ret = StopPhase]
            /\ UNCHANGED jobQueue
    /\ UNCHANGED <<config, lifecycle, permits, tokens, groups, request, replyBody, answer,
                   job, nextId, senders, metrics, worker>>
    /\ UNCHANGED app

(***************************************************************************)
(* Workers, dispatchers and semaphore units.                               *)
(***************************************************************************)
\* Token acquisition that never blocks.
TokenAlwaysAvailable == TRUE

\* A send to the tokens channel (capacity maxConcurrent) does not block.
TokenAvailable == tokens < MaxConcurrent

\* A receive that takes the task that entered the queue last.
WorkerTakeLast(w) ==
    /\ mode \in {"pool", "hybrid"}
    /\ worker[w].pc = "recv"
    /\ Len(jobQueue) > 0
    /\ worker' = [worker EXCEPT ![w] =
                     [pc |-> "got", job |-> jobQueue[Len(jobQueue)]]]
    /\ jobQueue' = SubSeq(jobQueue, 1, Len(jobQueue) - 1)
    /\ spc' = IF mode = "pool"
              THEN [spc EXCEPT ![jobQueue[Len(jobQueue)]] = "ready"]
              ELSE spc
    /\ UNCHANGED <<config, lifecycle, permits, tokens, groups, handlers, posts,
                   upstream, outcome, metrics>>
    /\ UNCHANGED app

\* Pool.worker / HybridForwarder.worker: for job := range jobQueue, one
\* receive.  The pool's worker sends the job itself.
WorkerTake(w) ==
    /\ mode \in {"pool", "hybrid"}
    /\ worker[w].pc = "recv"
    /\ Len(jobQueue) > 0
    /\ worker' = [worker EXCEPT ![w] = [pc |-> "got", job |-> Head(jobQueue)]]
    /\ jobQueue' = Tail(jobQueue)
    /\ spc' = IF mode = "pool" THEN [spc EXCEPT ![Head(jobQueue)] = "ready"]
              ELSE spc
    /\ UNCHANGED <<config, lifecycle, permits, tokens, groups, handlers, posts,
                   upstream, outcome, metrics>>
    /\ UNCHANGED app

\* The range loop ends when the channel is closed and empty: defer wg.Done().
WorkerExit(w) ==
    /\ mode \in {"pool", "hybrid"}
    /\ worker[w].pc = "recv"
    /\ closed
    /\ Len(jobQueue) = 0
    /\ worker' = [worker EXCEPT ![w] = [pc |-> "exited", job |-> 0]]
    /\ wg' = wg - 1
    /\ UNCHANGED <<config, lifecycle, channels, sendWG, waiters, handlers,
                   senders, metrics>>
    /\ UNCHANGED app

\* A dispatcher that goes on to spawn its sender without a token.
DispatcherAcquireNoToken(w) ==
    /\ mode = "hybrid"
    /\ worker[w].pc = "got"
    /\ worker' = [worker EXCEPT ![w].pc = "tok"]
    /\ UNCHANGED <<config, lifecycle, channels, groups, handlers,
                   senders, metrics>>
    /\ UNCHANGED app

\* HybridForwarder.worker: h.tokens <- struct{}{}, blocking at maxConcurrent.
DispatcherAcquire(w) ==
    /\ mode = "hybrid"
    /\ worker[w].pc = "got"
    /\ TokenAvailable
    /\ tokens' = tokens + 1
    /\ worker' = [worker EXCEPT ![w].pc = "tok"]
    /\ UNCHANGED <<config, lifecycle, jobQueue, permits, groups, handlers,
                   senders, metrics>>
    /\ UNCHANGED app

\* A dispatcher that keeps its task in hand and stays with the sender it has
\* spawned instead of going back to the queue.
DispatcherSpawnHoldsTask(w) ==
    /\ mode = "hybrid"
    /\ worker[w].pc = "tok"
    /\ sendWG' = sendWG + 1
    /\ spc' = [spc EXCEPT ![worker[w].job] = "ready"]
    /\ worker' = [worker EXCEPT ![w].pc = "join"]
    /\ UNCHANGED <<config, lifecycle, channels, wg, waiters, handlers, posts,
                   upstream, outcome, metrics>>
    /\ UNCHANGED app

\* HybridForwarder.worker: h.sendWG.Add(1); go func(j hybridJob) {...}(job).
DispatcherSpawn(w) ==
    /\ mode = "hybrid"
    /\ worker[w].pc = "tok"
    /\ sendWG' = sendWG + 1
    /\ spc' = [spc EXCEPT ![worker[w].job] = "ready"]
    /\ worker' = [worker EXCEPT ![w] = [pc |-> "recv", job |-> 0]]
    /\ UNCHANGED <<config, lifecycle, channels, wg, waiters, handlers, posts,
                   upstream, outcome, metrics>>
    /\ UNCHANGED app

\* The unit SemaphoreForwarder.Submit spawns: s.waiters.Inc().
UnitWaitersInc(id) ==
    /\ mode = "semaphore"
    /\ spc[id] = "spawned"
    /\ waiters' = waiters + 1
    /\ spc' = [spc EXCEPT ![id] = "waiting"]
    /\ UNCHANGED <<config, lifecycle, channels, wg, sendWG, handlers, posts,
                   upstream, outcome, metrics, worker>>
    /\ UNCHANGED app

\* s.tokens <- struct{}{}, blocking at maxConcurrent.
UnitAcquire(id) ==
    /\ mode = "semaphore"
    /\ spc[id] = "waiting"
    /\ TokenAvailable
    /\ tokens' = tokens + 1
    /\ spc' = [spc EXCEPT ![id] = "acquired"]
    /\ UNCHANGED <<config, lifecycle, jobQueue, permits, groups, handlers, posts,
                   upstream, outcome, metrics, worker>>
    /\ UNCHANGED app

\* A unit that leaves itself counted as a waiter after it has its token.
UnitWaitersDecForgets(id) ==
    /\ mode = "semaphore"
    /\ spc[id] = "acquired"
    /\ waiters' = waiters
    /\ spc' = [spc EXCEPT ![id] = "ready"]
    /\ UNCHANGED <<config, lifecycle, channels, wg, sendWG, handlers, posts,
                   upstream, outcome, metrics, worker>>
    /\ UNCHANGED app

\* s.waiters.Dec().
UnitWaitersDec(id) ==
    /\ mode = "semaphore"
    /\ spc[id] = "acquired"
    /\ waiters' = waiters - 1
    /\ spc' = [spc EXCEPT ![id] = "ready"]
    /\ UNCHANGED <<config, lifecycle, channels, wg, sendWG, handlers, posts,
                   upstream, outcome, metrics, worker>>
    /\ UNCHANGED app

(***************************************************************************)
(* The upstream sender, the same steps in the three forwarders.            *)
(***************************************************************************)
SendOutcomes == { "2xx", "non2xx", "transport" }

\* ActiveWorkersGauge.Inc(), http.NewRequest, the header copy and the start
\* of client.Do; a request-creation error counts the job as failed.
SendBegin(id) ==
    /\ spc[id] = "ready"
    /\ ActiveWorkersGauge' = ActiveWorkersGauge + 1
    /\ IF urlOK
       THEN /\ upstream' = [upstream EXCEPT ![id] = NewRequest(job[id])]
            /\ posts' = [posts EXCEPT ![id] = @ + 1]
            /\ spc' = [spc EXCEPT ![id] = "sending"]
            /\ UNCHANGED <<outcome, JobsFailedCounter>>
       ELSE /\ JobsFailedCounter' = JobsFailedCounter + 1
            /\ outcome' = [outcome EXCEPT ![id] = "create"]
            /\ spc' = [spc EXCEPT ![id] = "counted"]
            /\ UNCHANGED <<upstream, posts>>
    /\ UNCHANGED <<config, lifecycle, channels, groups, handlers,
                   JobsProcessedCounter, worker>>
    /\ UNCHANGED app

\* A sender that counts every response as processed, whatever its status.
SendFinishStatusIgnored(id, o) ==
    /\ spc[id] = "sending"
    /\ outcome' = [outcome EXCEPT ![id] = o]
    /\ spc' = [spc EXCEPT ![id] = "counted"]
    /\ IF o \in {"2xx", "non2xx"}
       THEN /\ JobsProcessedCounter' = JobsProcessedCounter + 1
            /\ UNCHANGED JobsFailedCounter
       ELSE /\ JobsFailedCounter' = JobsFailedCounter + 1
            /\ UNCHANGED JobsProcessedCounter
    /\ UNCHANGED <<config, lifecycle, channels, groups, handlers, posts,
                   upstream, ActiveWorkersGauge, worker>>
    /\ UNCHANGED app

\* A sender that sends the task again when the status is not 2xx.
SendFinishRetries(id, o) ==
    /\ spc[id] = "sending"
    /\ IF o = "non2xx"
       THEN /\ spc' = [spc EXCEPT ![id] = "ready"]
            /\ ActiveWorkersGauge' = ActiveWorkersGauge - 1
            /\ UNCHANGED <<outcome, JobsProcessedCounter, JobsFailedCounter>>
       ELSE /\ outcome' = [outcome EXCEPT ![id] = o]
            /\ spc' = [spc EXCEPT ![id] = "counted"]
            /\ IF o = "2xx"
               THEN /\ JobsProcessedCounter' = JobsProcessedCounter + 1
                    /\ UNCHANGED JobsFailedCounter
               ELSE /\ JobsFailedCounter' = JobsFailedCounter + 1
                    /\ UNCHANGED JobsProcessedCounter
            /\ UNCHANGED ActiveWorkersGauge
    /\ UNCHANGED <<config, lifecycle, channels, groups, handlers, posts,
                   upstream, worker>>
    /\ UNCHANGED app

\* client.Do returns: a transport error, or a response whose status is in
\* [200, 300) or not; one of the two counters is incremented.
SendFinish(id, o) ==
    /\ spc[id] = "sending"
    /\ outcome' = [outcome EXCEPT ![id] = o]
    /\ spc' = [spc EXCEPT ![id] = "counted"]
    /\ IF o = "2xx"
       THEN /\ JobsProcessedCounter' = JobsProcessedCounter + 1
            /\ UNCHANGED JobsFailedCounter
       ELSE /\ JobsFailedCounter' = JobsFailedCounter + 1
            /\ UNCHANGED JobsProcessedCounter
    /\ UNCHANGED <<config, lifecycle, channels, groups, handlers, posts,
                   upstream, ActiveWorkersGauge, worker>>
    /\ UNCHANGED app

\* A sender that lowers the gauge only after a response, not after an error.
SendGaugeDecOnResponseOnly(id) ==
    /\ spc[id] = "counted"
    /\ ActiveWorkersGauge' = IF outcome[id] \in {"2xx", "non2xx"}
                             THEN ActiveWorkersGauge - 1
                             ELSE ActiveWorkersGauge
    /\ spc' = [spc EXCEPT ![id] = "decd"]
    /\ UNCHANGED <<config, lifecycle, channels, groups, handlers, posts,
                   upstream, outcome, JobsProcessedCounter, JobsFailedCounter,
                   worker>>
    /\ UNCHANGED app

\* ActiveWorkersGauge.Dec().
SendGaugeDec(id) ==
    /\ spc[id] = "counted"
    /\ ActiveWorkersGauge' = ActiveWorkersGauge - 1
    /\ spc' = [spc EXCEPT ![id] = "decd"]
    /\ UNCHANGED <<config, lifecycle, channels, groups, handlers, posts,
                   upstream, outcome, JobsProcessedCounter, JobsFailedCounter,
                   worker>>
    /\ UNCHANGED app

\* A release that the failure paths skip.
SendReleaseLeaksOnFailure(id) ==
    /\ spc[id] = "decd"
    /\ IF mode = "pool"
       THEN /\ permits' = IF outcome[id] = "2xx" THEN permits - 1 ELSE permits
            /\ worker' = [w \in Workers |->
                            IF worker[w].pc = "got" /\ worker[w].job = id
                            THEN [pc |-> "recv", job |-> 0] ELSE worker[w]]
            /\ spc' = [spc EXCEPT ![id] = "done"]
            /\ UNCHANGED tokens
       ELSE /\ tokens' = tokens - 1
            /\ spc' = [spc EXCEPT ![id] = "released"]
            /\ UNCHANGED <<permits, worker>>
    /\ UNCHANGED <<config, lifecycle, jobQueue, groups, handlers, posts,
                   upstream, outcome, metrics>>
    /\ UNCHANGED app

\* <-p.permits, after which the pool's worker is back at its receive;
\* <-s.tokens / <-h.tokens in the two other forwarders.
SendRelease(id) ==
    /\ spc[id] = "decd"
    /\ IF mode = "pool"
       THEN /\ permits' = permits - 1
            /\ worker' = [w \in Workers |->
                            IF worker[w].pc = "got" /\ worker[w].job = id
                            THEN [pc |-> "recv", job |-> 0] ELSE worker[w]]
            /\ spc' = [spc EXCEPT ![id] = "done"]
            /\ UNCHANGED tokens
       ELSE /\ tokens' = tokens - 1
            /\ spc' = [spc EXCEPT ![id] = "released"]
            /\ UNCHANGED <<permits, worker>>
    /\ UNCHANGED <<config, lifecycle, jobQueue, groups, handlers, posts,
                   upstream, outcome, metrics>>
    /\ UNCHANGED app

\* The deferred s.wg.Done() of a semaphore unit, h.sendWG.Done() of a hybrid
\* sender.
SendGroupDone(id) ==
    /\ spc[id] = "released"
    /\ IF mode = "semaphore"
       THEN wg' = wg - 1 /\ UNCHANGED sendWG
       ELSE sendWG' = sendWG - 1 /\ UNCHANGED wg
    /\ spc' = [spc EXCEPT ![id] = "done"]
    /\ UNCHANGED <<config, lifecycle, channels, waiters, handlers, posts,
                   upstream, outcome, metrics, worker>>
    /\ UNCHANGED app

(***************************************************************************)
(* Stop.                                                                   *)
(***************************************************************************)
\* A stopOnce that never remembers having run.
StopOnceForgets == FALSE

\* stopOnce.Do has already been entered: it does not run its function again.
StopOnceDone == stopPc # "idle"

\* Stop: stopOnce.Do.  The pool closes jobQueue; the two other forwarders
\* store stopped, and the hybrid one closes jobQueue in a later step.  Then
\* the waiting goroutine is spawned and Stop waits in its select.  A later
\* call waits inside stopOnce.Do until the first one has returned, and
\* returns having done nothing.
StopCall(cap) ==
    /\ stopCalls < cap
    /\ stopCalls' = stopCalls + 1
    /\ IF ~StopOnceDone
       THEN CASE mode = "pool" ->
                   /\ closed' = TRUE
                   /\ closes' = closes + 1
                   /\ stopPc' = "waiting"
                   /\ waitPc' = "wg"
                   /\ waitRuns' = waitRuns + 1
                   /\ UNCHANGED stopped
              [] mode = "semaphore" ->
                   /\ stopped' = TRUE
                   /\ stopPc' = "waiting"
                   /\ waitPc' = "wg"
                   /\ waitRuns' = waitRuns + 1
                   /\ UNCHANGED <<closed, closes>>
              [] mode = "hybrid" ->
                   /\ stopped' = TRUE
                   /\ stopPc' = "closing"
                   /\ UNCHANGED <<closed, closes, waitPc, waitRuns>>
       ELSE /\ stopPc = "returned"
            /\ UNCHANGED <<stopPc, waitPc, stopped, closed, closes, waitRuns>>
    /\ UNCHANGED <<config, startOnce, stopHow, startCalls, spawns, channels,
                   groups, handlers, senders, metrics, worker>>

\* HybridForwarder.Stop: close(h.jobQueue), then the wait.
StopClose ==
    /\ stopPc = "closing"
    /\ closed' = TRUE
    /\ closes' = closes + 1
    /\ stopPc' = "waiting"
    /\ waitPc' = "wg"
    /\ waitRuns' = waitRuns + 1
    /\ UNCHANGED <<config, startOnce, stopHow, stopped, startCalls, stopCalls,
                   spawns, channels, groups, handlers, senders, metrics, worker>>
    /\ UNCHANGED app

\* A waiting goroutine that does not wait for the group to empty.
WaitWgNoWait ==
    /\ waitPc = "wg"
    /\ waitPc' = IF mode = "hybrid" THEN "sendWG" ELSE "done"
    /\ UNCHANGED <<config, startOnce, stopPc, stopHow, stopped, closed,
                   startCalls, stopCalls, spawns, closes, waitRuns, channels,
                   groups, handlers, senders, metrics, worker>>
    /\ UNCHANGED app

\* The waiting goroutine: wg.Wait() returns.
WaitWg ==
    /\ waitPc = "wg"
    /\ wg = 0
    /\ waitPc' = IF mode = "hybrid" THEN "sendWG" ELSE "done"
    /\ UNCHANGED <<config, startOnce, stopPc, stopHow, stopped, closed,
                   startCalls, stopCalls, spawns, closes, waitRuns, channels,
                   groups, handlers, senders, metrics, worker>>
    /\ UNCHANGED app

\* A waiting goroutine that does not wait for the senders' group to empty.
WaitSendWGNoWait ==
    /\ waitPc = "sendWG"
    /\ waitPc' = "done"
    /\ UNCHANGED <<config, startOnce, stopPc, stopHow, stopped, closed,
                   startCalls, stopCalls, spawns, closes, waitRuns, channels,
                   groups, handlers, senders, metrics, worker>>
    /\ UNCHANGED app

\* The waiting goroutine of the hybrid forwarder: sendWG.Wait() returns.
WaitSendWG ==
    /\ waitPc = "sendWG"
    /\ sendWG = 0
    /\ waitPc' = "done"
    /\ UNCHANGED <<config, startOnce, stopPc, stopHow, stopped, closed,
                   startCalls, stopCalls, spawns, closes, waitRuns, channels,
                   groups, handlers, senders, metrics, worker>>
    /\ UNCHANGED app

\* Stop's select: case <-done.
StopDone ==
    /\ stopPc = "waiting"
    /\ waitPc = "done"
    /\ stopPc' = "returned"
    /\ stopHow' = "done"
    /\ UNCHANGED <<config, startOnce, waitPc, stopped, closed, startCalls,
                   stopCalls, spawns, closes, waitRuns, channels, groups,
                   handlers, senders, metrics, worker>>
    /\ UNCHANGED app

\* A select whose timer case is taken only once the wait is over.
StopTimeoutAfterWait ==
    /\ stopPc = "waiting"
    /\ waitPc = "done"
    /\ stopPc' = "returned"
    /\ stopHow' = "timeout"
    /\ UNCHANGED <<config, startOnce, waitPc, stopped, closed, startCalls,
                   stopCalls, spawns, closes, waitRuns, channels, groups,
                   handlers, senders, metrics, worker>>
    /\ UNCHANGED app

\* Stop's select: case <-time.After(shutdownTimeout).
StopTimeout ==
    /\ stopPc = "waiting"
    /\ stopPc' = "returned"
    /\ stopHow' = "timeout"
    /\ UNCHANGED <<config, startOnce, waitPc, stopped, closed, startCalls,
                   stopCalls, spawns, closes, waitRuns, channels, groups,
                   handlers, senders, metrics, worker>>
    /\ UNCHANGED app

(***************************************************************************)
(* The application: App.Run, the server goroutine it starts, the readiness *)
(* middleware and the health handlers.                                     *)
(***************************************************************************)
forwarding == <<config, lifecycle, channels, groups, handlers, senders, metrics,
                worker>>

StatusOK == 200

\* The paths the readiness middleware lets through whatever the flag.
ExemptPaths == { "/healthz", "/readyz", "/metrics" }

\* The paths of the requests the server is sent.
AppPaths == ExemptPaths \cup { "/v1/traces" }

GateIgnoresReadiness(p) == FALSE

\* The readiness middleware: the flag is loaded, and when it is false a path
\* that is not exempt is rejected.
GateRejects(p) == ~readiness /\ p \notin ExemptPaths

\* A request is accepted by the listener and runs through the middleware chain
\* down to the readiness middleware, which answers 503 or calls next.
Middleware(p) ==
    /\ srvPc = "listening"
    /\ nextReq <= MaxRequests
    /\ nextReq' = nextReq + 1
    /\ gate' = [gate EXCEPT ![nextReq] =
                  [path |-> p,
                   seen |-> readiness,
                   pc |-> IF GateRejects(p) THEN "replied" ELSE "next",
                   status |-> IF GateRejects(p) THEN StatusServiceUnavailable
                              ELSE 0,
                   task |-> 0]]
    /\ UNCHANGED <<readiness, runPc, srvPc, events, quit, signals, forwarding>>

\* HealthHandler.HandleLiveness.
HandleLiveness(q) ==
    /\ gate[q].pc = "next"
    /\ gate[q].path = "/healthz"
    /\ gate' = [gate EXCEPT ![q].pc = "replied", ![q].status = StatusOK]
    /\ UNCHANGED <<readiness, runPc, srvPc, nextReq, quit, signals, events, forwarding>>

\* HealthHandler.HandleReadiness: the flag is loaded again, by the handler.
HandleReadiness(q) ==
    /\ gate[q].pc = "next"
    /\ gate[q].path = "/readyz"
    /\ gate' = [gate EXCEPT ![q].pc = "replied",
                            ![q].seen = readiness,
                            ![q].status = IF readiness THEN StatusOK
                                          ELSE StatusServiceUnavailable]
    /\ UNCHANGED <<readiness, runPc, srvPc, nextReq, quit, signals, events, forwarding>>

\* The handler of GET /metrics.
HandleMetrics(q) ==
    /\ gate[q].pc = "next"
    /\ gate[q].path = "/metrics"
    /\ gate' = [gate EXCEPT ![q].pc = "replied", ![q].status = StatusOK]
    /\ UNCHANGED <<readiness, runPc, srvPc, nextReq, quit, signals, events, forwarding>>

\* ProxyHandler.HandleTraces: handleAsync, as task nextId.
HandleTraces(q, r) ==
    /\ gate[q].pc = "next"
    /\ gate[q].path = r.path
    /\ nextId <= MaxProxied
    /\ HandleAsync(r)
    /\ gate' = [gate EXCEPT ![q].pc = "handler", ![q].task = nextId]
    /\ UNCHANGED <<readiness, runPc, srvPc, nextReq, quit, signals, events>>

\* App.Run: injectDependency and preProcess, which calls forwarder.Start.
RunPreProcess ==
    /\ runPc = "created"
    /\ StartCall(1)
    /\ runPc' = "preprocessed"
    /\ UNCHANGED <<readiness, srvPc, gate, nextReq, quit, signals, events>>

RunServeBeforeStart ==
    /\ runPc = "created"
    /\ runPc' = "waiting"
    /\ srvPc' = "setup"
    /\ UNCHANGED <<readiness, gate, nextReq, quit, signals, events, forwarding>>

\* App.Run: the go statement that starts the server goroutine; Run goes on to
\* wait for a signal.
RunServe ==
    /\ runPc = "preprocessed"
    /\ runPc' = "waiting"
    /\ srvPc' = "setup"
    /\ UNCHANGED <<readiness, gate, nextReq, quit, signals, events, forwarding>>

\* The server goroutine: middlewares and routes are set up, then
\* a.readiness.Store(true).
ServerReady ==
    /\ srvPc = "setup"
    /\ readiness' = TRUE
    /\ srvPc' = "ready"
    /\ UNCHANGED <<runPc, gate, nextReq, quit, signals, events, forwarding>>

\* The server goroutine: e.Start(addr).  The listener accepts connections,
\* unless the server has been shut down already, when Start returns
\* http.ErrServerClosed.
ServerStart ==
    /\ srvPc = "ready"
    /\ srvPc' = IF \E i \in 1..Len(events) : events[i] = "shutdown"
                THEN "closed" ELSE "listening"
    /\ UNCHANGED <<readiness, runPc, gate, nextReq, quit, signals, events, forwarding>>

\* The operating system delivers SIGINT or SIGTERM to the process after
\* signal.Notify(quit, ...): the signal package sends it on quit without
\* blocking, so it is buffered when the one slot is free and dropped when it
\* is not.  At most `cap` signals are delivered.
Signal(cap) ==
    /\ runPc \notin {"created", "preprocessed", "done"}
    /\ signals < cap
    /\ signals' = signals + 1
    /\ quit' = 1
    /\ UNCHANGED <<readiness, runPc, srvPc, gate, nextReq, events, forwarding>>

\* App.Run: a signal is received from quit; postProcess, then
\* a.readiness.Store(false), and the drain sleep begins.
RunSignal ==
    /\ runPc = "waiting"
    /\ quit = 1
    /\ quit' = 0
    /\ readiness' = FALSE
    /\ runPc' = "draining"
    /\ events' = Append(events, "notready")
    /\ UNCHANGED <<srvPc, gate, nextReq, signals, forwarding>>

\* A drain sleep that a further signal cuts short: Run then leaves out the
\* forwarder's Stop.
RunDrainedUnlessSignalled ==
    /\ runPc = "draining"
    /\ IF quit = 1
       THEN /\ quit' = 0
            /\ runPc' = "stopped"
            /\ events' = Append(events, "stopped")
       ELSE /\ runPc' = "drained"
            /\ events' = Append(events, "drained")
            /\ UNCHANGED quit
    /\ UNCHANGED <<readiness, srvPc, gate, nextReq, signals, forwarding>>

\* App.Run: time.Sleep(drainDuration) returns.
RunDrained ==
    /\ runPc = "draining"
    /\ runPc' = "drained"
    /\ events' = Append(events, "drained")
    /\ UNCHANGED <<readiness, srvPc, gate, nextReq, quit, signals, forwarding>>

\* App.Run: a.forwarder.Stop() is called.
RunStop ==
    /\ runPc = "drained"
    /\ StopCall(1)
    /\ runPc' = "stopping"
    /\ events' = Append(events, "stop")
    /\ UNCHANGED <<readiness, srvPc, gate, nextReq, quit, signals>>

RunStopReturnedNoWait ==
    /\ runPc = "stopping"
    /\ runPc' = "stopped"
    /\ events' = Append(events, "stopped")
    /\ UNCHANGED <<readiness, srvPc, gate, nextReq, quit, signals, forwarding>>

\* App.Run: a.forwarder.Stop() returns.
RunStopReturned ==
    /\ runPc = "stopping"
    /\ stopPc = "returned"
    /\ runPc' = "stopped"
    /\ events' = Append(events, "stopped")
    /\ UNCHANGED <<readiness, srvPc, gate, nextReq, quit, signals, forwarding>>

\* App.Run: a.echo.Shutdown(shutdownCtx) is called; the listener is closed.
RunShutdown ==
    /\ runPc = "stopped"
    /\ runPc' = "shutdown"
    /\ srvPc' = IF srvPc = "listening" THEN "closed" ELSE srvPc
    /\ events' = Append(events, "shutdown")
    /\ UNCHANGED <<readiness, gate, nextReq, quit, signals, forwarding>>

\* App.Run: Shutdown returns, with an error or without one, and a.cancel()
\* is called.
RunCancel ==
    /\ runPc = "shutdown"
    /\ runPc' = "done"
    /\ events' = Append(events, "cancel")
    /\ UNCHANGED <<readiness, srvPc, gate, nextReq, quit, signals, forwarding>>

(***************************************************************************)
(* Specifications.                                                         *)
(***************************************************************************)
\* The steps of the forwarder's own goroutines and of the handlers inside
\* Submit: everything but the arrival of a request and the calls of Start and
\* Stop.
Work ==
    \/ \E id \in TaskIds : PoolHandoff(id)
    \/ \E id \in TaskIds : SemaphoreSpawn(id)
    \/ \E id \in TaskIds : HybridEnqueue(id)
    \/ \E w \in Workers : WorkerTake(w)
    \/ \E w \in Workers : WorkerExit(w)
    \/ \E w \in Workers : DispatcherAcquire(w)
    \/ \E w \in Workers : DispatcherSpawn(w)
    \/ \E id \in TaskIds : UnitWaitersInc(id)
    \/ \E id \in TaskIds : UnitAcquire(id)
    \/ \E id \in TaskIds : UnitWaitersDec(id)
    \/ \E id \in TaskIds : SendBegin(id)
    \/ \E id \in TaskIds, o \in SendOutcomes : SendFinish(id, o)
    \/ \E id \in TaskIds : SendGaugeDec(id)
    \/ \E id \in TaskIds : SendRelease(id)
    \/ \E id \in TaskIds : SendGroupDone(id)
    \/ StopClose
    \/ WaitWg
    \/ WaitSendWG
    \/ StopDone
    \/ StopTimeout

\* Everything but the arrival of a request; Start and Stop are called at most
\* `calls` times each, by a caller that is not App.Run.
Forward(calls) ==
    \/ (StartCall(calls) /\ UNCHANGED app)
    \/ (StopCall(calls) /\ UNCHANGED app)
    \/ Work

Next ==
    \/ (nextId <= MaxBurst /\ \E r \in PlainRequests : HandleAsync(r) /\ UNCHANGED app)
    \/ Forward(1)

Spec == Init /\ [][Next]_vars

\* The specification of the claims about a forwarder used as its lifecycle
\* prescribes: Stop is called on a forwarder that has been started.
NextStarted ==
    \/ (nextId <= MaxBurst /\ \E r \in PlainRequests : HandleAsync(r) /\ UNCHANGED app)
    \/ (Forward(1) /\ (stopCalls' # stopCalls => startOnce))

SpecStarted == Init /\ [][NextStarted]_vars

\* The specification of the claims about the permits of a running pool: the
\* pooled forwarder, started and not stopped, with up to MaxTasks submits.
InitPool == Init /\ mode = "pool"

NextPool ==
    \/ (nextId <= MaxTasks /\ \E r \in PlainRequests : HandleAsync(r) /\ UNCHANGED app)
    \/ (StartCall(1) /\ UNCHANGED app)
    \/ \E id \in TaskIds : PoolHandoff(id)
    \/ \E w \in Workers : WorkerTake(w)
    \/ \E id \in TaskIds : SendBegin(id)
    \/ \E id \in TaskIds, o \in SendOutcomes : SendFinish(id, o)
    \/ \E id \in TaskIds : SendGaugeDec(id)
    \/ \E id \in TaskIds : SendRelease(id)

SpecPool == InitPool /\ [][NextPool]_vars

\* The specification of the claim that SubmitJob returns: the pool as in
\* SpecPool, with the scheduler running every goroutine that can take a step:
\* the caller of Start, a submitter at its hand-off, a worker at its receive.
\* Nothing is assumed of the upstream: a send may never end.
SpecPoolLive ==
    /\ InitPool
    /\ [][NextPool]_vars
    /\ WF_vars(StartCall(1) /\ UNCHANGED app)
    /\ \A id \in TaskIds : WF_vars(PoolHandoff(id))
    /\ \A w \in 1..WorkerCount : WF_vars(WorkerTake(w))

\* The specification of the pool constructed with two workers and the queue
\* size 0, facing an upstream that does not answer: submits, hand-offs and
\* workers run, no send ends.
InitZeroQueue == InitSized({"k"}, {TRUE}, 2, 0) /\ mode = "pool"

NextZeroQueue ==
    \/ (nextId <= MaxBurst /\ \E r \in PlainRequests : HandleAsync(r) /\ UNCHANGED app)
    \/ (StartCall(1) /\ UNCHANGED app)
    \/ \E id \in TaskIds : PoolHandoff(id)
    \/ \E w \in Workers : WorkerTake(w)
    \/ \E id \in TaskIds : SendBegin(id)

SpecZeroQueue == InitZeroQueue /\ [][NextZeroQueue]_vars

\* The specification of the claims about repeated calls of Start and Stop.
NextCalls ==
    \/ (nextId <= 2 /\ \E r \in PlainRequests : HandleAsync(r) /\ UNCHANGED app)
    \/ Forward(MaxCalls)

SpecCalls == Init /\ [][NextCalls]_vars

\* The specification of the claims about Stop returning: Stop's own goroutine
\* runs on (it closes the queue and reaches its select), and the timer of
\* time.After fires.
SpecLive ==
    /\ Init
    /\ [][NextCalls]_vars
    /\ WF_vars(StopClose)
    /\ WF_vars(StopTimeout)

\* The specification of the header claims: one request, drawn from
\* WideRequests, built into a job, submitted and taken to the point where its
\* sender has built the upstream request.
InitIngress == InitWith({"", "k"}, {TRUE})

NextIngress ==
    \/ (nextId <= 1 /\ \E r \in WideRequests : HandleAsync(r) /\ UNCHANGED app)
    \/ (StartCall(1) /\ UNCHANGED app)
    \/ \E id \in TaskIds : PoolHandoff(id)
    \/ \E id \in TaskIds : SemaphoreSpawn(id)
    \/ \E id \in TaskIds : HybridEnqueue(id)
    \/ \E w \in Workers : WorkerTake(w)
    \/ \E w \in Workers : DispatcherAcquire(w)
    \/ \E w \in Workers : DispatcherSpawn(w)
    \/ \E id \in TaskIds : UnitWaitersInc(id)
    \/ \E id \in TaskIds : UnitAcquire(id)
    \/ \E id \in TaskIds : UnitWaitersDec(id)
    \/ \E id \in TaskIds : SendBegin(id)

SpecIngress == InitIngress /\ [][NextIngress]_vars

\* The specification of the application claims: App.Run from NewApp on, the
\* server goroutine, up to MaxRequests requests to the paths of AppPaths, and
\* the forwarder Run starts and stops; MaxProxied of the requests reach
\* handleAsync.
InitApp == InitWith({"k"}, {TRUE})

NextApp ==
    \/ \E p \in AppPaths : Middleware(p)
    \/ \E q \in ReqIds : HandleLiveness(q)
    \/ \E q \in ReqIds : HandleReadiness(q)
    \/ \E q \in ReqIds : HandleMetrics(q)
    \/ \E q \in ReqIds, r \in PlainRequests : HandleTraces(q, r)
    \/ RunPreProcess
    \/ RunServe
    \/ ServerReady
    \/ ServerStart
    \/ Signal(1)
    \/ RunSignal
    \/ RunDrained
    \/ RunStop
    \/ RunStopReturned
    \/ RunShutdown
    \/ RunCancel
    \/ Work

SpecApp == InitApp /\ [][NextApp]_vars

\* The specification of the claim about further signals: the application as
\* in SpecApp, sent up to MaxSignals signals.
NextSignals ==
    \/ NextApp
    \/ Signal(MaxSignals)

SpecSignals == InitApp /\ [][NextSignals]_vars

\* The specification of the claims about the order of the queue: the pooled
\* and the hybrid forwarder with a queue of QueueCap + 1 slots, started and
\* not stopped.
InitFifo ==
    /\ InitSized({"k"}, {TRUE}, WorkerCount, QueueCap + 1)
    /\ mode \in {"pool", "hybrid"}

NextFifo ==
    \/ (nextId <= MaxBurst /\ \E r \in PlainRequests : HandleAsync(r) /\ UNCHANGED app)
    \/ (StartCall(1) /\ UNCHANGED app)
    \/ \E id \in TaskIds : PoolHandoff(id)
    \/ \E id \in TaskIds : HybridEnqueue(id)
    \/ \E w \in Workers : WorkerTake(w)
    \/ \E w \in Workers : DispatcherAcquire(w)
    \/ \E w \in Workers : DispatcherSpawn(w)
    \/ \E id \in TaskIds : SendBegin(id)
    \/ \E id \in TaskIds, o \in SendOutcomes : SendFinish(id, o)
    \/ \E id \in TaskIds : SendGaugeDec(id)
    \/ \E id \in TaskIds : SendRelease(id)
    \/ \E id \in TaskIds : SendGroupDone(id)

SpecFifo == InitFifo /\ [][NextFifo]_vars

\* The specification of the claims about sync_logs_debug: the flag is either
\* way, two requests come to /v1/logs or /v1/traces, and the forwarder, not
\* stopped, does its work.
InitSync ==
    InitFrom({"k"}, BOOLEAN, Modes, {WorkerCount}, {QueueCap}, {1}, BOOLEAN)

NextSync ==
    \/ (nextId <= 2 /\ \E r \in LogsRequests, a \in Answers :
                          HandleLogs(r, a) /\ UNCHANGED app)
    \/ (nextId <= 2 /\ \E r \in PlainRequests : HandleAsync(r) /\ UNCHANGED app)
    \/ (StartCall(1) /\ UNCHANGED app)
    \/ \E id \in TaskIds : PoolHandoff(id)
    \/ \E id \in TaskIds : SemaphoreSpawn(id)
    \/ \E id \in TaskIds : HybridEnqueue(id)
    \/ \E w \in Workers : WorkerTake(w)
    \/ \E w \in Workers : DispatcherAcquire(w)
    \/ \E w \in Workers : DispatcherSpawn(w)
    \/ \E id \in TaskIds : UnitWaitersInc(id)
    \/ \E id \in TaskIds : UnitAcquire(id)
    \/ \E id \in TaskIds : UnitWaitersDec(id)
    \/ \E id \in TaskIds : SendBegin(id)
    \/ \E id \in TaskIds, o \in SendOutcomes : SendFinish(id, o)
    \/ \E id \in TaskIds : SendGaugeDec(id)
    \/ \E id \in TaskIds : SendRelease(id)
    \/ \E id \in TaskIds : SendGroupDone(id)

SpecSync == InitSync /\ [][NextSync]_vars

\* The specification of the configuration claims: forwarding_mode is one of
\* the three modes, empty, or a value config.Load does not know;
\* worker_pool_size is negative, 0 or WorkerCount; the machine has up to MaxCPU
\* CPUs.  The forwarder is started and takes one request.
ForwardingModes == { "", "pool", "semaphore", "hybrid", "Hybrid", "bogus" }

InitConfig ==
    InitFrom({"k"}, {TRUE}, ForwardingModes, { -1, 0, WorkerCount }, {QueueCap},
             1..MaxCPU, {FALSE})

NextConfig ==
    \/ (nextId <= 1 /\ \E r \in PlainRequests : HandleAsync(r) /\ UNCHANGED app)
    \/ (StartCall(1) /\ UNCHANGED app)
    \/ \E id \in TaskIds : PoolHandoff(id)
    \/ \E id \in TaskIds : SemaphoreSpawn(id)
    \/ \E id \in TaskIds : HybridEnqueue(id)
    \/ \E w \in Workers : WorkerTake(w)

SpecConfig == InitConfig /\ [][NextConfig]_vars

(***************************************************************************)
(* Claims.                                                                 *)
(***************************************************************************)
Arrived == 1..(nextId - 1)

\* Tasks the pool has accepted and not finished: held by a submitter between
\* its permit and its send to the queue, in the queue, or held by a worker.
PoolOutstanding ==
    Cardinality({ id \in TaskIds : hpc[id] = "handoff" })
    + Len(jobQueue)
    + Cardinality({ w \in Workers : worker[w].pc = "got" })

\* Requests for which SubmitJob was called, and those it accepted.
PoolSubmitted == { id \in Arrived : request[id].bodyOK }

PoolAccepted == { id \in PoolSubmitted : submitRes[id] # "err" }

PoolNoCompletion == \A id \in TaskIds : spc[id] # "done"

\* C1: in the pooled forwarder the accepted tasks that have not finished
\* (held by a submitter, queued, or held by a worker) never number more than
\* W + Q; before Stop, a SubmitJob call is rejected exactly when that number
\* is W + Q at the call; and while no task has finished, a burst of more than
\* W + Q submits has exactly W + Q accepted.
C1_PoolBound ==
    /\ [](mode = "pool" => PoolOutstanding <= PermitCap)
    /\ [](mode = "pool" /\ stopPc = "idle" /\ PoolNoCompletion
            /\ Cardinality(PoolSubmitted) > PermitCap
          => Cardinality(PoolAccepted) = PermitCap)
    /\ [][mode = "pool" /\ stopPc = "idle" /\ nextId' = nextId + 1
            /\ request'[nextId].bodyOK
          => ((submitRes'[nextId] = "err") <=> (PoolOutstanding = PermitCap))]_vars

C1_Witness ==
    /\ mode = "pool"
    /\ stopPc = "idle"
    /\ startOnce
    /\ PoolNoCompletion
    /\ PoolOutstanding = PermitCap
    /\ Cardinality(PoolAccepted) = PermitCap
    /\ \E id \in Arrived : submitRes[id] = "err"

\* The concurrency ceiling of the forwarder in use.
ConcurrencyCeiling == IF mode = "pool" THEN workerCount ELSE MaxConcurrent

\* C2: in every forwarder the active_workers gauge never exceeds the
\* concurrency ceiling: worker_count (pooled), max_concurrent (semaphore and
\* hybrid).
C2_ActiveBounded == ActiveWorkersGauge <= ConcurrencyCeiling

\* The gauge is at the ceiling while another task waits for a sender.
C2_Witness ==
    /\ ActiveWorkersGauge = ConcurrencyCeiling
    /\ \/ mode = "pool" /\ Len(jobQueue) > 0
       \/ mode = "semaphore" /\ \E id \in TaskIds : spc[id] = "waiting"
       \/ mode = "hybrid" /\ \E w \in Workers : worker[w].pc = "got"

\* C3: on the async path the reply is 202 exactly when Submit returned no
\* error, 503 exactly when it returned an error, 400 exactly when the body
\* could not be read, and then Submit was not called and no job was built;
\* the reply is given before the task's sender has started.
C3_ReplyFromSubmit ==
    /\ [](\A id \in Arrived :
            /\ (reply[id] = StatusAccepted) <=> (submitRes[id] = "ok")
            /\ (reply[id] = StatusServiceUnavailable) <=> (submitRes[id] = "err")
            /\ (reply[id] = StatusBadRequest) <=> ~request[id].bodyOK
            /\ ~request[id].bodyOK =>
                  submitRes[id] = "notcalled" /\ job[id] = NoJob /\ spc[id] = "none")
    /\ [][\A id \in TaskIds :
            reply[id] = 0 /\ reply'[id] # 0
            => posts'[id] = 0 /\ spc'[id] \in {"none", "spawned"}]_vars

\* One run in which the three replies were given, the 202 for a task whose
\* send has not started.
C3_Witness ==
    /\ \E id \in Arrived : reply[id] = StatusAccepted /\ posts[id] = 0
    /\ \E id \in Arrived : reply[id] = StatusServiceUnavailable
    /\ \E id \in Arrived : reply[id] = StatusBadRequest

\* The values the client sent under a name, in any letter case, in the order
\* of its field lines.
RECURSIVE ValuesOf(_, _)
ValuesOf(lines, n) ==
    IF Len(lines) = 0 THEN << >>
    ELSE LET rest == ValuesOf(Tail(lines), n)
         IN  IF EqualFold(Head(lines)[1], n) THEN <<Head(lines)[2]>> \o rest
             ELSE rest

\* The values a header map holds under a name spelled exactly so.
HeaderValues(h, n) == IF n \in DOMAIN h THEN h[n] ELSE << >>

\* The only spelling of the name among the keys of h is n itself.
OnlySpelling(h, n) == \A k \in DOMAIN h : EqualFold(k, n) => k = n

Sent == { id \in Arrived : posts[id] > 0 }

\* C4: with a non-empty credential the Authorization of every task the
\* adapter builds, and of the upstream request made from it, has exactly one
\* value, the credential, under the one key Authorization, whatever the
\* client sent; so it is the same for any two client requests.
C4_AuthorizationIsCredential ==
    apiKey # "" =>
        /\ \A id \in Arrived :
              /\ HeaderValues(job[id].headers, nAuthorization) = <<apiKey>>
              /\ OnlySpelling(job[id].headers, nAuthorization)
        /\ \A id \in Sent :
              /\ HeaderValues(upstream[id].header, nAuthorization) = <<apiKey>>
              /\ OnlySpelling(upstream[id].header, nAuthorization)

\* The client sent two Authorization lines whose names differ in letter case,
\* and the upstream request has been built.
C4_Witness ==
    /\ apiKey # ""
    /\ \E id \in Sent :
          /\ Len(ValuesOf(request[id].lines, nAuthorization)) >= 2
          /\ \E i, j \in 1..Len(request[id].lines) :
                /\ request[id].lines[i][1] # request[id].lines[j][1]
                /\ EqualFold(request[id].lines[i][1], nAuthorization)
                /\ EqualFold(request[id].lines[j][1], nAuthorization)

\* The names the copy loop must drop.
ForbiddenNames ==
    { nHost, nConnection, nKeepAlive, nProxyAuthenticate, nProxyAuthorization,
      nTE, nTrailer, nTransferEncoding, nUpgrade, nProxyConnection }

\* The client sent the header with some value that is not empty.  A
\* Content-Type sent with empty values only is read as not sent.
SentWithValue(lines, n) ==
    \E i \in 1..Len(ValuesOf(lines, n)) : ValuesOf(lines, n)[i] # ""

\* The client headers whose values must reach the upstream unchanged.
PreservedNames(lines) ==
    { n \in BaseNames \ ForbiddenNames :
        /\ Len(ValuesOf(lines, n)) > 0
        /\ n = nAuthorization => apiKey = ""
        /\ n = nContentType => SentWithValue(lines, n) }

\* C5: for every task sent upstream the body is the client's, and every
\* client header that is neither Host nor hop-by-hop is on the upstream
\* request with the client's values in the client's order; Authorization is
\* excepted when a credential is configured.
C5_RoundTrip ==
    \A id \in Sent :
        /\ upstream[id].body = request[id].body
        /\ \A n \in PreservedNames(request[id].lines) :
              HeaderValues(upstream[id].header, n) = ValuesOf(request[id].lines, n)

\* C6: the headers of a task never have Host or a hop-by-hop name among their
\* keys, in any letter case, and always have a Content-Type: the client's
\* values when the client sent one, application/x-protobuf alone otherwise.
C6_FilterAndContentType ==
    \A id \in Arrived :
        /\ \A k \in DOMAIN job[id].headers :
              \A n \in ForbiddenNames : ~EqualFold(k, n)
        /\ HeaderValues(job[id].headers, nContentType) =
              IF SentWithValue(request[id].lines, nContentType)
              THEN ValuesOf(request[id].lines, nContentType)
              ELSE <<DefaultContentType>>

\* C7, as claimed: with an empty credential the upstream request has no
\* Authorization header.
C7_NoAuthorization ==
    apiKey = "" =>
        \A id \in Sent :
            \A k \in DOMAIN upstream[id].header : ~EqualFold(k, nAuthorization)

\* C7, amended: with an empty credential the adapter adds no Authorization:
\* the task and the upstream request carry under Authorization exactly the
\* values the client sent, and no such header when the client sent none.
C7_AuthorizationLeftToClient ==
    apiKey = "" =>
        /\ \A id \in Arrived :
              /\ HeaderValues(job[id].headers, nAuthorization)
                   = ValuesOf(request[id].lines, nAuthorization)
              /\ OnlySpelling(job[id].headers, nAuthorization)
        /\ \A id \in Sent :
              /\ HeaderValues(upstream[id].header, nAuthorization)
                   = ValuesOf(request[id].lines, nAuthorization)
              /\ OnlySpelling(upstream[id].header, nAuthorization)

\* No credential is configured and the request went upstream: one in which the
\* client sent no Authorization, or one in which it sent two.
C7_Witness ==
    /\ apiKey = ""
    /\ \E id \in Sent :
          /\ Len(request[id].lines) > 0
          /\ Len(ValuesOf(request[id].lines, nAuthorization)) \in {0, 2}
          /\ nAuthorization \in DOMAIN upstream[id].header
               <=> Len(ValuesOf(request[id].lines, nAuthorization)) = 2

\* Everything but the counter of Start calls, and but the counter of Stop
\* calls.
StartState ==
    <<config, startOnce, stopPc, stopHow, waitPc, stopped, closed, stopCalls,
      spawns, closes, waitRuns, channels, groups, handlers, senders, metrics,
      worker>>

StopState ==
    <<config, startOnce, stopPc, stopHow, waitPc, stopped, closed, startCalls,
      spawns, closes, waitRuns, channels, groups, handlers, senders, metrics,
      worker>>

\* C8: in every forwarder, however many times Start and Stop are called, the
\* worker set is spawned exactly once, the queue is closed exactly once (never
\* in the semaphore forwarder, which has none) and the wait-with-timeout is run
\* exactly once; a call after the first changes nothing but the count of calls.
C8_StartStopOnce ==
    /\ [](/\ spawns = (IF startCalls >= 1 THEN 1 ELSE 0)
          /\ (mode # "semaphore" /\ spawns = 1) =>
                \A w \in Workers : worker[w].pc # "none"
          /\ closes <= 1 /\ waitRuns <= 1
          /\ mode = "semaphore" => closes = 0
          /\ closed <=> (closes = 1)
          /\ (stopCalls >= 1 /\ stopPc # "closing") =>
                waitRuns = 1 /\ (mode # "semaphore" => closes = 1)
          /\ stopCalls = 0 => closes = 0 /\ waitRuns = 0)
    /\ [][(startCalls >= 1 /\ startCalls' = startCalls + 1)
            => UNCHANGED StartState]_vars
    /\ [][(stopCalls >= 1 /\ stopCalls' = stopCalls + 1)
            => UNCHANGED StopState]_vars

\* Start and Stop have each been called twice, with work accepted in between.
C8_Witness ==
    /\ startCalls >= 2
    /\ stopCalls >= 2
    /\ spawns = 1
    /\ waitRuns = 1
    /\ \E id \in Arrived : submitRes[id] = "ok"

\* C9: once Stop has returned, no upstream POST is started.
C9_NoPostAfterStop == [][stopPc = "returned" => posts' = posts]_vars

\* C10: Stop, once called, returns; when it returns on the timer, the step
\* changes nothing of the workers, the senders, the channels or the metrics,
\* and a sender that is in flight after Stop returned can still finish and
\* update a counter.
C10_StopReturns ==
    /\ (stopPc # "idle") ~> (stopPc = "returned")
    /\ [][(stopHow = "none" /\ stopHow' = "timeout")
            => UNCHANGED <<worker, senders, channels, groups, metrics, waitPc>>]_vars
    /\ [](stopPc = "returned" =>
            \A id \in TaskIds :
                spc[id] = "sending" =>
                    \A o \in SendOutcomes : ENABLED SendFinish(id, o))

\* Stop returned on the timer while a send was in flight and the waiting
\* goroutine was still waiting.
C10_Witness ==
    /\ stopPc = "returned"
    /\ stopHow = "timeout"
    /\ waitPc \in {"wg", "sendWG"}
    /\ \E id \in TaskIds : spc[id] = "sending"

\* The tasks whose Submit returned success before Stop was called.
AcceptedBeforeStop ==
    { id \in Arrived : submitRes[id] = "ok" /\ submitAt[id].ret = "before" }

\* The task's sender has run to its end and one counter was incremented for it.
Terminal(id) == spc[id] = "done" /\ outcome[id] # "none"

\* C11: in a forwarder stopped after it was started, when Stop returns because
\* the wait ended (not on the timer), every task whose Submit returned success
\* before Stop was called is terminal: its sender ran to its end and counted
\* it; the queue is empty, and in the pooled and hybrid forwarders no permit
\* or token is held and no send is in flight.
C11_NoWorkLost ==
    stopHow = "done" =>
        /\ \A id \in AcceptedBeforeStop : Terminal(id)
        /\ jobQueue = << >>
        /\ mode # "semaphore" =>
              /\ \A id \in Arrived : submitRes[id] = "ok" => Terminal(id)
              /\ tokens = 0 /\ ActiveWorkersGauge = 0
              /\ \A w \in Workers : worker[w].pc = "exited"

\* Stop returned because the wait ended, with two tasks accepted before it.
C11_Witness ==
    /\ stopHow = "done"
    /\ Cardinality(AcceptedBeforeStop) >= 2
    /\ \E id \in AcceptedBeforeStop : outcome[id] = "2xx"

\* The requests whose Submit was called after Stop had been called.
SubmittedAfterStop == { id \in Arrived : submitAt[id].call = "after" }

\* C12: in the pooled and the hybrid forwarder a Submit called after Stop was
\* called returns an error: the task is not accepted, and the call ends in no
\* other way (the model's other ending is the panic of a send on the closed
\* queue).
C12_SubmitAfterStopRejected ==
    mode \in {"pool", "hybrid"} =>
        \A id \in SubmittedAfterStop :
            /\ submitRes[id] \in {"none", "err"}
            /\ hpc[id] # "panicked"
            /\ hpc[id] = "replied" => reply[id] = StatusServiceUnavailable

\* The units of the semaphore forwarder that were spawned and have not ended.
LiveUnits == { id \in TaskIds : spc[id] \notin {"none", "done"} }

\* C13: the semaphore forwarder's Submit never returns an error and never
\* panics; a call made before Stop spawns one unit, registered in wg; a call
\* made after Stop was called returns success at once and spawns no unit,
\* sends nothing and changes no group, channel, sender or counter.
C13_SemaphoreAlwaysAccepts ==
    /\ [](mode = "semaphore" =>
            /\ \A id \in Arrived :
                  /\ submitRes[id] \in {"none", "ok", "notcalled"}
                  /\ request[id].bodyOK /\ hpc[id] = "replied" =>
                        reply[id] = StatusAccepted
                  /\ (submitAt[id].call = "before" /\ submitRes[id] = "ok") =>
                        spc[id] # "none"
                  /\ submitAt[id].call = "after" =>
                        /\ submitRes[id] = "ok" /\ submitAt[id].ret = "after"
                        /\ spc[id] = "none" /\ posts[id] = 0
                        /\ outcome[id] = "none"
            /\ wg = Cardinality(LiveUnits))
    /\ [][(mode = "semaphore" /\ nextId' = nextId + 1 /\ stopPc # "idle")
            => UNCHANGED <<channels, groups, senders, metrics>>]_vars

\* Under load (a unit waits for a token while another sends), one call made
\* before Stop has its unit and one made after Stop was dropped.
C13_Witness ==
    /\ mode = "semaphore"
    /\ \E id \in Arrived : submitAt[id].call = "after" /\ submitRes[id] = "ok"
    /\ \E id \in Arrived : spc[id] = "waiting"
    /\ \E id \in Arrived : spc[id] = "sending"

\* The tasks a sender has counted, by how their send ended.
CountedTasks == { id \in TaskIds : spc[id] \in {"counted", "decd", "released", "done"} }

ProcessedTasks == { id \in TaskIds : outcome[id] = "2xx" }

FailedTasks == { id \in TaskIds : outcome[id] \in {"non2xx", "transport", "create"} }

\* C14: in every forwarder jobs_processed_total is the number of tasks whose
\* upstream answered 2xx and jobs_failed_total the number of tasks that ended
\* in another status, a transport error or a request-creation error; every
\* task a sender has finished with is in exactly one of the two, no other task
\* is counted; the counters never decrease, a step adds at most one to their
\* sum, and a task once counted is never counted again.
C14_CountersCountTasks ==
    /\ [](/\ JobsProcessedCounter = Cardinality(ProcessedTasks)
          /\ JobsFailedCounter = Cardinality(FailedTasks)
          /\ ProcessedTasks \cup FailedTasks = CountedTasks
          /\ JobsProcessedCounter + JobsFailedCounter = Cardinality(CountedTasks)
          /\ \A id \in TaskIds :
                (outcome[id] = "create") <=> (id \in CountedTasks /\ posts[id] = 0))
    /\ [][/\ JobsProcessedCounter' >= JobsProcessedCounter
          /\ JobsFailedCounter' >= JobsFailedCounter
          /\ JobsProcessedCounter' + JobsFailedCounter'
                <= JobsProcessedCounter + JobsFailedCounter + 1
          /\ \A id \in CountedTasks :
                id \in CountedTasks' /\ outcome'[id] = outcome[id]]_vars

\* A 2xx, another status and a transport error have each been counted, and a
\* sender has run to its end.
C14_Witness ==
    /\ JobsProcessedCounter >= 1
    /\ JobsFailedCounter >= 2
    /\ \E id \in TaskIds : outcome[id] = "non2xx"
    /\ \E id \in TaskIds : outcome[id] = "transport"
    /\ \E id \in TaskIds : spc[id] = "done"

\* C21: once Stop has been called on a forwarder that was never started, no
\* later step (a first call of Start in particular) spawns its workers, which
\* would take tasks from the queue and send them.
C21_NoStartAfterStop ==
    [][(stopPc # "idle" /\ ~startOnce) =>
          \A w \in Workers : worker'[w].pc = "none"]_vars

\* C22: once Stop has returned, by the end of the wait or by the timeout,
\* GetQueueDepth returns 0.
C22_DepthZeroWhenStopped == stopPc = "returned" => GetQueueDepth = 0

\* Stop has returned because its timer fired.
StopTimedOut == stopPc = "returned" /\ stopHow = "timeout"

\* Tasks Submit accepted, called before Stop, that no sender has taken: in the
\* queue or in a dispatcher's hands (pool, hybrid), in a unit that holds no
\* token yet (semaphore).
Untaken ==
    { id \in Arrived : /\ submitRes[id] = "ok"
                       /\ submitAt[id].call = "before"
                       /\ spc[id] \in { "none", "spawned", "waiting" } }

\* C23: when Stop has returned on its timeout, the accepted tasks that no
\* sender has taken are counted in JobsFailedCounter, once each, with the tasks
\* whose send failed.
C23_UntakenCountedFailed ==
    StopTimedOut =>
        JobsFailedCounter = Cardinality(FailedTasks \cup Untaken)

\* The tasks in the queue and the tasks in the hands of workers/dispatchers.
Queued == { jobQueue[i] : i \in 1..Len(jobQueue) }

Held == { worker[w].job : w \in { v \in Workers : worker[v].job # 0 } }

\* C24: no task is POSTed twice: a task whose send has ended, whatever its
\* outcome, is with no worker, in no queue and has at most one POST; no task
\* is in the queue twice, in two workers' hands, or both queued and taken; a
\* task Submit rejected is never queued, taken or sent.
C24_AtMostOnePost ==
    /\ \A id \in TaskIds : posts[id] <= 1
    /\ \A id \in TaskIds :
          outcome[id] # "none" =>
             /\ spc[id] \in { "counted", "decd", "released", "done" }
             /\ id \notin Queued
             /\ posts[id] = IF outcome[id] = "create" THEN 0 ELSE 1
    /\ \A i, j \in 1..Len(jobQueue) : jobQueue[i] = jobQueue[j] => i = j
    /\ \A v, w \in Workers :
          worker[v].job # 0 /\ worker[v].job = worker[w].job => v = w
    /\ Queued \cap Held = {}
    /\ \A id \in Arrived :
          submitRes[id] \in { "err", "notcalled" } =>
             /\ posts[id] = 0
             /\ spc[id] = "none"
             /\ id \notin Queued \cup Held

\* A send has ended with a status that is not 2xx and its task is done, and
\* another task was rejected at Submit.
C24_Witness ==
    /\ \E id \in Arrived :
          outcome[id] = "non2xx" /\ spc[id] = "done" /\ posts[id] = 1
    /\ \E id \in Arrived : submitRes[id] = "err"

\* C25: the queue changes only by a task entering at its tail or by a
\* worker/dispatcher that held no task taking the task at its head, so that of
\* two tasks in the queue the one that entered first is taken first.
C25_QueueIsFifo ==
    [][jobQueue' # jobQueue =>
          \/ \E id \in TaskIds :
                /\ id \notin Queued
                /\ jobQueue' = Append(jobQueue, id)
          \/ /\ jobQueue # <<>>
             /\ jobQueue' = Tail(jobQueue)
             /\ \E w \in Workers :
                   /\ worker[w].job = 0
                   /\ worker'[w].job = Head(jobQueue)]_vars

\* Two tasks are in the queue, in another order than the one they arrived in,
\* behind a task a worker has taken.
C25_Witness ==
    /\ Len(jobQueue) = 2
    /\ jobQueue[1] > jobQueue[2]
    /\ Held # {}

\* C26: in the hybrid forwarder the queue never holds more than its capacity;
\* a Submit that has passed the stopped test can always take its next step;
\* and a Submit that returns before Stop is called returns success, with the
\* task appended to the queue, when the queue held fewer tasks than its
\* capacity, and an error, with the queue unchanged, when it was full.
C26_HybridSubmitNeverBlocks ==
    /\ [](mode = "hybrid" =>
            /\ GetQueueDepth <= jobQueueSize
            /\ \A id \in Arrived :
                  hpc[id] = "checked" => ENABLED HybridEnqueue(id))
    /\ [][\A id \in Arrived :
            (mode = "hybrid" /\ stopPc = "idle"
               /\ hpc[id] = "checked" /\ hpc'[id] # "checked") =>
                 /\ hpc'[id] = "replied"
                 /\ IF Len(jobQueue) < jobQueueSize
                    THEN /\ submitRes'[id] = "ok"
                         /\ jobQueue' = Append(jobQueue, id)
                    ELSE /\ submitRes'[id] = "err"
                         /\ jobQueue' = jobQueue]_vars

\* The queue of the hybrid forwarder is full, one Submit has been accepted and
\* one has returned an error, both before Stop.
C26_Witness ==
    /\ mode = "hybrid"
    /\ Len(jobQueue) = jobQueueSize
    /\ \E id \in Arrived : submitRes[id] = "ok" /\ submitAt[id].ret = "before"
    /\ \E id \in Arrived : submitRes[id] = "err" /\ submitAt[id].ret = "before"

\* The reply of the synchronous path to the request that arrives in a step.
SyncReplyRight(id) ==
    IF ~request'[id].bodyOK \/ ~urlOK
    THEN reply'[id] = StatusBadRequest /\ replyBody'[id] = ""
    ELSE IF answer'[id].how = "transport"
    THEN reply'[id] = StatusBadGateway /\ replyBody'[id] = ""
    ELSE reply'[id] = answer'[id].status /\ replyBody'[id] = answer'[id].body

\* C27: with syncLogs set, a request to /v1/logs makes no Submit and leaves
\* the forwarder's queue, permits, tokens, wait-groups, senders and counters as
\* they are; its reply is 400 when the body cannot be read or the upstream
\* request cannot be built, 502 when the upstream fails in transport, and the
\* upstream's status and body otherwise.  A request to /v1/traces with a
\* readable body calls Submit whatever syncLogs is, and so does a request to
\* /v1/logs when syncLogs is not set.
C27_SyncLogsBypass ==
    [][nextId' = nextId + 1 =>
          IF syncLogs /\ request'[nextId].path = "/v1/logs"
          THEN /\ submitRes'[nextId] = "notcalled"
               /\ hpc'[nextId] = "replied"
               /\ UNCHANGED <<channels, groups, spc, outcome, metrics, worker,
                              job>>
               /\ SyncReplyRight(nextId)
          ELSE /\ request'[nextId].bodyOK =>
                    /\ submitRes'[nextId] # "notcalled"
                    /\ submitAt'[nextId].call # "none"
                    /\ job'[nextId] = BuildJob(request'[nextId], "base", apiKey)
               /\ answer'[nextId] = NoAnswer]_vars

\* With syncLogs set, a request to /v1/logs has been answered with the
\* upstream's status 500 and its body, and a request to /v1/traces has been
\* accepted by Submit.
C27_Witness ==
    /\ syncLogs
    /\ \E id \in Arrived :
          /\ request[id].path = "/v1/logs"
          /\ reply[id] = 500
          /\ replyBody[id] = "partial"
          /\ submitRes[id] = "notcalled"
    /\ \E id \in Arrived :
          /\ request[id].path = "/v1/traces"
          /\ submitRes[id] = "ok"

\* C28: the forwarder built is the semaphore one when forwarding_mode is
\* "semaphore", the hybrid one when it is "hybrid", and the pooled one for
\* "pool", for the empty value and for every other value.
C28_ModeSelectsForwarder ==
    mode = IF cfg.ForwardingMode = "semaphore" THEN "semaphore"
           ELSE IF cfg.ForwardingMode = "hybrid" THEN "hybrid"
           ELSE "pool"

\* An unknown forwarding_mode has given a pooled forwarder, whose worker has
\* taken a task from the queue.
C28_Witness ==
    /\ cfg.ForwardingMode = "bogus"
    /\ mode = "pool"
    /\ \E w \in Workers : worker[w].pc = "got"

\* The workers/dispatchers Start has spawned.
Spawned == { w \in DOMAIN worker : worker[w].pc # "none" }

\* C29: with worker_pool_size <= 0, the pooled and the hybrid forwarder, once
\* started, run 50 * NumCPU workers/dispatchers.
C29_DefaultWorkerCount ==
    (cfg.WorkerPoolSize <= 0 /\ mode \in {"pool", "hybrid"} /\ startOnce) =>
        Cardinality(Spawned) = DefaultWorkersPerCPU * numCPU

\* C30: in a started pool, whenever a SubmitJob holds a permit and has its
\* task still to hand to the queue, the queue has a free slot or a worker is at
\* its receive, so that the hand-off does not wait for a send to end.
C30_HandoffNeverBlocks ==
    (mode = "pool" /\ startOnce /\ ~closed) =>
        \A id \in Arrived :
            hpc[id] = "handoff" =>
                \/ Len(jobQueue) < jobQueueSize
                \/ \E w \in Workers : worker[w].pc = "recv"

\* The pool is started, its queue is full, a SubmitJob holds the last permit
\* with its task still in hand, and a worker is at its receive.
C30_Witness ==
    /\ mode = "pool"
    /\ startOnce
    /\ permits = PermitCap
    /\ Len(jobQueue) = jobQueueSize
    /\ \E id \in Arrived : hpc[id] = "handoff"
    /\ \E w \in Workers : worker[w].pc = "recv"

\* C31: under fair scheduling every SubmitJob on a pool that is not stopped
\* returns: a submitter holding a permit hands its task over and gets its
\* reply, whether or not any upstream send ever ends.
C31_SubmitJobReturns ==
    \A id \in TaskIds : (hpc[id] = "handoff") ~> (hpc[id] = "replied")

\* A SubmitJob has returned with its task accepted while the worker is in a
\* send the upstream has not answered and the queue is full again.
C31_Witness ==
    /\ mode = "pool"
    /\ startOnce
    /\ \E w \in Workers : worker[w].pc = "got" /\ spc[worker[w].job] = "sending"
    /\ Len(jobQueue) = jobQueueSize
    /\ \E id \in Arrived :
        /\ submitRes[id] = "ok"
        /\ \E k \in 1..Len(jobQueue) : jobQueue[k] = id

\* The hybrid dispatchers that hold a task and wait for a token while every
\* token is held by a sender whose POST the upstream has not answered.
TokenStarved ==
    { w \in Workers :
        /\ worker[w].pc = "got"
        /\ tokens = MaxConcurrent
        /\ Cardinality({ id \in TaskIds : spc[id] = "sending" }) = MaxConcurrent }

\* C32, as stated: sends that never complete cannot stop the dispatchers from
\* taking queued tasks: in no state is a task queued while every dispatcher
\* waits for a token that only the end of a send can free.
C32_SendsNeverStallDispatch ==
    (mode = "hybrid" /\ startOnce) =>
        ~(Len(jobQueue) > 0 /\ TokenStarved = Workers)

\* C32, amended: a dispatcher never waits for a send it has spawned.  A task in
\* a dispatcher's hands has no sender yet, a dispatcher with no task in hand
\* is at its receive (or gone, the queue closed and empty), and a dispatcher
\* with a task in hand can take its next step unless all max_concurrent
\* tokens are held.
C32_DispatcherWaitsOnlyForToken ==
    mode = "hybrid" =>
        \A w \in Workers :
            /\ worker[w].pc \in {"none", "recv", "got", "tok", "exited"}
            /\ worker[w].job # 0 => spc[worker[w].job] = "none"
            /\ worker[w].job = 0 => worker[w].pc \in {"none", "recv", "exited"}
            /\ worker[w].pc \in {"got", "tok"} =>
                \/ ENABLED DispatcherAcquire(w)
                \/ ENABLED DispatcherSpawn(w)
                \/ tokens = MaxConcurrent

\* A dispatcher has taken the next task while the send of the task it handed
\* over before is still waiting for the upstream.
C32_Witness ==
    /\ mode = "hybrid"
    /\ \E w \in Workers :
        /\ worker[w].pc = "got"
        /\ \E id \in TaskIds : id # worker[w].job /\ spc[id] = "sending"

\* The tasks whose send is in flight: the sender has raised the gauge and has
\* not yet lowered it.
InFlight == { id \in TaskIds : spc[id] \in {"sending", "counted"} }

\* The tasks whose sender holds a token of the semaphore or hybrid forwarder.
TokenHolders ==
    { id \in TaskIds : spc[id] \in {"acquired", "ready", "sending", "counted", "decd"} }

\* C33: in every forwarder the active_workers gauge equals the number of sends
\* in flight (so it is never negative, and 0 when none is), every send that
\* has ended by any of its four ways out has lowered it again, and in the
\* semaphore and hybrid forwarders a send in flight still holds its token.
C33_GaugeIsSendsInFlight ==
    /\ ActiveWorkersGauge = Cardinality(InFlight)
    /\ ActiveWorkersGauge >= 0
    /\ \A id \in TaskIds :
        spc[id] \in {"decd", "released", "done"} =>
            outcome[id] \in {"2xx", "non2xx", "transport", "create"}
    /\ mode \in {"semaphore", "hybrid"} =>
        /\ InFlight \subseteq TokenHolders
        /\ Cardinality(InFlight) <= tokens

\* One send has ended on a transport error and has given everything back,
\* another is in flight: the gauge counts the one in flight.
C33_Witness ==
    /\ \E id \in TaskIds : spc[id] = "done" /\ outcome[id] = "transport"
    /\ \E id \in TaskIds : spc[id] = "sending"
    /\ ActiveWorkersGauge = 1

\* The semaphore units between waiters.Inc() and waiters.Dec(), and those of
\* them that are not blocked: the unit holds its token already, or a token is
\* free for it to take.
CountedWaiters == { id \in TaskIds : spc[id] \in {"waiting", "acquired"} }

MidAcquire ==
    { id \in CountedWaiters : spc[id] = "acquired" \/ TokenAvailable }

\* C34: the semaphore forwarder's GetQueueDepth is never negative and counts
\* the units between their waiters.Inc() and waiters.Dec(); when none of them
\* is in the middle of its acquire, that is the number of units blocked on the
\* full tokens channel.  A unit that sends is not counted.
C34_DepthCountsWaiters ==
    mode = "semaphore" =>
        /\ GetQueueDepth >= 0
        /\ GetQueueDepth = Cardinality(CountedWaiters)
        /\ MidAcquire = {} =>
            /\ GetQueueDepth = Cardinality({ id \in TaskIds : spc[id] = "waiting" })
            /\ GetQueueDepth > 0 => tokens = MaxConcurrent
        /\ CountedWaiters \cap InFlight = {}

\* One unit sends and two wait for its token: the depth is 2.
C34_Witness ==
    /\ mode = "semaphore"
    /\ \E id \in TaskIds : spc[id] = "sending"
    /\ MidAcquire = {}
    /\ GetQueueDepth = 2

\* C36: a hybrid Submit that runs concurrently with Stop returns success (its
\* task entered the queue before the close) or an error; it never sends on
\* the closed queue, which would end the call in a panic.
C36_HybridSubmitNeverPanics ==
    mode = "hybrid" =>
        \A id \in Arrived :
            /\ hpc[id] # "panicked"
            /\ submitRes[id] \in {"none", "notcalled", "ok", "err"}

\* C38: when the semaphore forwarder's Stop has returned because its wait
\* ended, no unit is waiting for a token or sending, and none is spawned
\* later by a Submit that read stopped = false before Stop set it.
C38_NoUnitAfterStopWaited ==
    (mode = "semaphore" /\ stopPc = "returned" /\ stopHow = "done") =>
        LiveUnits = {}

\* The hybrid forwarder's accepted tasks that wait in the queue, are in a
\* dispatcher's hands, or are with a sender that still holds its token; the
\* dispatchers that hold a token and have not spawned their sender.
HybridQueued == { jobQueue[k] : k \in 1..Len(jobQueue) }

HybridHeld == { worker[w].job : w \in { v \in Workers : worker[v].job # 0 } }

HybridSenders == { id \in TaskIds : spc[id] \in {"ready", "sending", "counted", "decd"} }

HybridTokenDispatchers == { w \in Workers : worker[w].pc = "tok" }

\* The accepted tasks whose send has not come to an outcome.
HybridUnsettled ==
    { id \in TaskIds : submitRes[id] = "ok" /\ outcome[id] = "none" }

\* C39: in the hybrid forwarder at most Q tasks are queued, at most D are in
\* dispatchers' hands and at most M are with senders holding a token, so at
\* most Q + D + M accepted tasks have no outcome yet; the tokens held are
\* those of the running senders and of the dispatchers about to spawn one.
C39_HybridOutstandingBound ==
    mode = "hybrid" =>
        /\ Cardinality(HybridQueued) = Len(jobQueue)
        /\ Len(jobQueue) <= jobQueueSize
        /\ Cardinality(HybridHeld) <= workerCount
        /\ Cardinality(HybridSenders) <= MaxConcurrent
        /\ HybridUnsettled \subseteq (HybridQueued \cup HybridHeld \cup HybridSenders)
        /\ Cardinality(HybridUnsettled) <= jobQueueSize + workerCount + MaxConcurrent
        /\ tokens = Cardinality(HybridSenders) + Cardinality(HybridTokenDispatchers)

\* Q + D + M tasks are outstanding: the queue is full, every dispatcher waits
\* for a token with a task in hand, and every token is with a sender.
C39_Witness ==
    /\ mode = "hybrid"
    /\ Cardinality(HybridUnsettled) = jobQueueSize + workerCount + MaxConcurrent
    /\ tokens = MaxConcurrent
    /\ HybridTokenDispatchers = {}

\* The hybrid senders registered in sendWG: spawned, their deferred Done not
\* yet run; the dispatchers registered in wg: started, not yet returned.
RegisteredSenders ==
    { id \in TaskIds : spc[id] \in {"ready", "sending", "counted", "decd", "released"} }

RegisteredDispatchers ==
    { w \in Workers : worker[w].pc \notin {"none", "exited"} }

\* C40: in a hybrid forwarder stopped after it was started, sendWG counts the
\* senders spawned and not ended and wg the dispatchers not returned; once
\* the waiting goroutine is past wg.Wait() every dispatcher has returned, so
\* no sender is registered after sendWG.Wait() has returned; and when Stop
\* returns without timing out, the queue is empty and every task that
\* entered it has been dispatched and its send has ended.
C40_StopWaitCoversSenders ==
    mode = "hybrid" =>
        /\ sendWG = Cardinality(RegisteredSenders)
        /\ wg = Cardinality(RegisteredDispatchers)
        /\ waitPc \in {"sendWG", "done"} =>
              /\ RegisteredDispatchers = {}
              /\ jobQueue = << >>
        /\ (waitPc = "done" \/ stopHow = "done") =>
              /\ RegisteredSenders = {}
              /\ \A id \in TaskIds : submitRes[id] = "ok" => Terminal(id)

\* Stop has returned through its done case after the queue held a task at
\* the close: the task was dispatched after the close and its send has ended.
C40_Witness ==
    /\ mode = "hybrid"
    /\ stopPc = "returned"
    /\ stopHow = "done"
    /\ \E id \in TaskIds :
        /\ submitAt[id].ret = "before"
        /\ submitRes[id] = "ok"
        /\ Terminal(id)
        /\ outcome[id] = "2xx"
    /\ Cardinality({ id \in TaskIds : submitRes[id] = "ok" }) >= 2

\* C37: in the application no request handler calls Submit after App.Run has
\* called forwarder.Stop, so that the pool's SubmitJob never sends on the
\* queue Stop has closed.
C37_NoSubmitAfterStop ==
    \A id \in Arrived :
        /\ submitAt[id].call # "after"
        /\ mode = "pool" => hpc[id] # "panicked"

\* Requests the server accepted, and those the readiness middleware found the
\* flag false for on a path that is not exempt.
Accepted == 1..(nextReq - 1)

Gated == { q \in Accepted : ~gate[q].seen /\ gate[q].path \notin ExemptPaths }

Signalled == Len(events) > 0

\* C16: the readiness flag is false when the application is created, true
\* while the listener accepts connections and no signal has been handled,
\* and false in every state from the handling of the first signal on.
C16_ReadinessLifecycle ==
    /\ runPc = "created" => ~readiness
    /\ srvPc = "listening" /\ ~Signalled => readiness
    /\ Signalled => ~readiness

\* The steps of Run's shutdown sequence.
ShutdownSequence ==
    <<"notready", "drained", "stop", "stopped", "shutdown", "cancel">>

Happened(e) == \E i \in 1..Len(events) : events[i] = e

\* C17: after a signal Run sets readiness false, waits the drain window, calls
\* the forwarder's Stop, waits for it to return, begins the server's shutdown
\* and cancels the context, in this order and once each: Stop is called once
\* and only after the drain window, the listener is closed only by the
\* shutdown, and the shutdown begins only when Stop has returned.
C17_ShutdownOrder ==
    /\ Len(events) <= Len(ShutdownSequence)
    /\ events = SubSeq(ShutdownSequence, 1, Len(events))
    /\ stopCalls = IF Happened("stop") THEN 1 ELSE 0
    /\ stopPc # "idle" <=> Happened("stop")
    /\ Happened("stopped") => stopPc = "returned"
    /\ srvPc = "closed" => Happened("shutdown")
    /\ Happened("shutdown") => srvPc # "listening"

\* Run has gone through the whole sequence, with a task taken by the
\* forwarder before.
C17_Witness ==
    /\ events = ShutdownSequence
    /\ runPc = "done"
    /\ srvPc = "closed"
    /\ \E id \in Arrived : submitRes[id] = "ok"

\* C18: Start has been called, and has run, when the readiness flag is true,
\* when the listener accepts connections, when a request has been accepted and
\* when Submit has been called.
C18_StartBeforeReady ==
    /\ (readiness \/ srvPc = "listening" \/ nextReq > 1) =>
          startOnce /\ startCalls = 1
    /\ \A id \in Arrived :
          submitRes[id] # "notcalled" => startOnce /\ startCalls = 1

\* The flag is true, the listener accepts and a Submit has been made.
C18_Witness ==
    /\ readiness
    /\ srvPc = "listening"
    /\ \E id \in Arrived : submitRes[id] \in { "ok", "err" }

\* C19: in the running pooled forwarder every accepted and unfinished task
\* holds exactly one permit; a permit is released only by a worker ending a
\* task, one per task, whatever the ending (2xx, other status, transport
\* error, request-creation error); and a submit is rejected exactly when all
\* W + Q permits are held, so that after a rejection the end of one send lets
\* exactly one further submit in.
C19_PermitPerTask ==
    /\ [](permits = PoolOutstanding /\ permits \in 0..PermitCap)
    /\ [][permits' < permits =>
            /\ permits' = permits - 1
            /\ \E id \in TaskIds :
                  spc[id] = "decd" /\ spc'[id] = "done" /\ outcome[id] # "none"]_vars
    /\ [][\A id \in TaskIds :
            (spc[id] # "done" /\ spc'[id] = "done") => permits' = permits - 1]_vars
    /\ [][(nextId' = nextId + 1 /\ request'[nextId].bodyOK)
            => ((submitRes'[nextId] = "err") <=> (permits = PermitCap))]_vars

\* Submits were accepted up to W + Q, the next was rejected, one send ended
\* (not with a 2xx), a later submit was accepted and the pool is full again.
C19_Witness ==
    /\ Cardinality({ id \in TaskIds : spc[id] = "done" }) = 1
    /\ \E id \in TaskIds : spc[id] = "done" /\ outcome[id] # "2xx"
    /\ \E r \in Arrived :
          /\ submitRes[r] = "err"
          /\ Cardinality({ id \in 1..(r - 1) : submitRes[id] = "ok" }) = PermitCap
          /\ \E id \in Arrived : id > r /\ submitRes[id] = "ok"
    /\ permits = PermitCap

\* Three submits have been made and each has returned.
ThreeSubmitted ==
    /\ Cardinality(PoolSubmitted) = 3
    /\ \A id \in PoolSubmitted : submitRes[id] # "none"

\* C20: the pool constructed with two workers and queue size 0, its upstream
\* not answering, accepts exactly two of three submits and rejects one, which
\* is answered 503; its queue depth, observed once the three submits have
\* returned, is 0.
C20_ZeroQueueRejectsThird ==
    ThreeSubmitted =>
          /\ GetQueueDepth = 0
          /\ Cardinality({ id \in PoolSubmitted : submitRes[id] = "ok" }) = 2
          /\ Cardinality({ id \in PoolSubmitted :
                             /\ submitRes[id] = "err"
                             /\ reply[id] = StatusServiceUnavailable }) = 1

\* Where App.Run stands after each number of steps of its shutdown sequence.
RunPcAfter ==
    <<"draining", "drained", "stopping", "stopped", "shutdown", "done">>

\* C35: a signal delivered after the first one changes nothing.  Run's
\* position is the one its shutdown steps so far lead to, the steps are a
\* prefix of the shutdown sequence (none skipped, none repeated, the drain
\* window between "notready" and Stop), Stop is called once; the step that
\* delivers a further signal leaves everything but the quit channel as it
\* was, and quit is received from only once, before the sequence begins.
C35_LaterSignalChangesNothing ==
    /\ [](/\ quit \in {0, 1}
          /\ Len(events) <= Len(ShutdownSequence)
          /\ events = SubSeq(ShutdownSequence, 1, Len(events))
          /\ Len(events) > 0 => runPc = RunPcAfter[Len(events)]
          /\ stopCalls <= 1
          /\ runPc \in {"stopping", "stopped", "shutdown", "done"} => stopCalls = 1)
    /\ [][(signals' > signals /\ signals >= 1) =>
              UNCHANGED <<readiness, runPc, srvPc, gate, nextReq, events,
                          forwarding>>]_vars
    /\ [][quit' < quit => (events = << >> /\ events' = <<"notready">>)]_vars

\* Run has gone through its whole sequence and a signal delivered after the
\* first was received still sits in the quit channel.
C35_Witness ==
    /\ signals = MaxSignals
    /\ quit = 1
    /\ events = ShutdownSequence
    /\ runPc = "done"
    /\ stopCalls = 1

====
